---- MODULE Spec2Model ----
(***************************************************************************)
(* A model of the light-cycle engine (TronEngine), of its round controller *)
(* and of the opponent's move selection.                                   *)
(*                                                                         *)
(* Numbers.  The engine computes with JavaScript numbers.  The model keeps *)
(* every length in twelfths of a pixel and every time in 1/240 s, so that  *)
(* speed * delta is an exact integer for every speed of the ramp           *)
(* (240, 260, ..., 520 px/s) and every modelled frame time.  Euclidean     *)
(* distances are compared by their squares.                                *)
(***************************************************************************)
EXTENDS Integers, Sequences, FiniteSets, TLC

\* ------------------------------------------------------------------ units

\* Length unit: a coordinate n of the model is n/12 px.
UnitsPerPixel == 12

\* Time unit: a delta d of the model is d/240 s.
TicksPerSecond == 240

Px(n) == n * UnitsPerPixel

Max(a, b) == IF a >= b THEN a ELSE b

Min(a, b) == IF a <= b THEN a ELSE b

Abs(a) == IF a < 0 THEN -a ELSE a

\* -------------------------------------------------------------- constants

BASE_SPEED == 240

SPEED_STEP == 20

SPEED_INTERVAL == 5

MAX_SPEED == 520

TRAIL_WIDTH == 6

COLLISION_RADIUS == 5

COLLISION_TOLERANCE == 1

SPAWN_PADDING == 80

VORONOI_STEP == (TRAIL_WIDTH + COLLISION_RADIUS + COLLISION_TOLERANCE) * 2

\* The clamp of a frame's elapsed time, 0.05 s, in time units.
MaxDelta == TicksPerSecond \div 20

Difficulties == {"easy", "normal", "hard"}

\* decisionInterval in time units (0.20 s, 0.10 s, 0.05 s) and minShortClear.
DIFFICULTY_CONFIG ==
    [easy   |-> [decisionInterval |-> (TicksPerSecond * 20) \div 100, minShortClear |-> 6],
     normal |-> [decisionInterval |-> (TicksPerSecond * 10) \div 100, minShortClear |-> 8],
     hard   |-> [decisionInterval |-> (TicksPerSecond * 5) \div 100, minShortClear |-> 10]]

Vec(x, y) == [x |-> x, y |-> y]

Directions == {"up", "down", "left", "right"}

DIRECTION_VECTORS ==
    [up |-> Vec(0, -1), down |-> Vec(0, 1), left |-> Vec(-1, 0), right |-> Vec(1, 0)]

\* The value null of decideAiDirection.
NullDir == Vec(0, 0)

\* ------------------------------------------------------------ model bounds

\* Player turns accepted per round under Spec (every call of the interface).
MaxTurns == 1

\* Player turns accepted per round under SpecDuel (start, turns and frames).
DuelTurns == 2

\* Frame times fed to update(): 0.025 s and the clamp 0.05 s.
Deltas == {MaxDelta \div 2, MaxDelta}

\* Canvas sizes (px) that resize() can read.
Arenas == {<<187, 168>>}

\* --------------------------------------------------------------- geometry

isOpposite(a, b) == a.x + b.x = 0 /\ a.y + b.y = 0

\* isSameDirection never recognising a direction.
isSameDirectionNever(a, b) == FALSE

isSameDirection(a, b) == a.x = b.x /\ a.y = b.y

\* distance(a, b), squared.
distanceSq(a, b) == (a.x - b.x) * (a.x - b.x) + (a.y - b.y) * (a.y - b.y)

Clamp(v, lo, hi) == Max(lo, Min(hi, v))

\* distancePointToSegment(p, a, b) <= r.  The projection parameter t is
\* clamped to [0, 1]; on an axis-parallel segment (the only kind the engine
\* draws) the closest point is p's coordinate clamped to the segment, on any
\* other segment the comparison is made without the division.
segmentWithin(p, a, b, r) ==
    LET abx == b.x - a.x
        aby == b.y - a.y
        apx == p.x - a.x
        apy == p.y - a.y
        abLenSq == abx * abx + aby * aby
        dot == apx * abx + apy * aby
    IN  IF abLenSq = 0 THEN apx * apx + apy * apy <= r * r
        ELSE IF dot <= 0 THEN distanceSq(p, a) <= r * r
        ELSE IF dot >= abLenSq THEN distanceSq(p, b) <= r * r
        ELSE IF aby = 0 THEN distanceSq(p, Vec(p.x, a.y)) <= r * r
        ELSE IF abx = 0 THEN distanceSq(p, Vec(a.x, p.y)) <= r * r
        ELSE (apx * apx + apy * apy - r * r) * abLenSq <= dot * dot

pointHitsSegments(point, segments, radius) ==
    \E i \in 1..Len(segments) :
        segmentWithin(point, segments[i].a, segments[i].b, radius)

\* COLLISION_RADIUS + COLLISION_TOLERANCE + inflate, inflate = 0.
collisionRadius == Px(COLLISION_RADIUS + COLLISION_TOLERANCE)

\* outOfBounds with the edge at distance `radius` still allowed.
outOfBoundsStrict(point, w, h) ==
    \/ point.x < collisionRadius
    \/ point.x > w - collisionRadius
    \/ point.y < collisionRadius
    \/ point.y > h - collisionRadius

outOfBounds(point, w, h) ==
    \/ point.x <= collisionRadius
    \/ point.x >= w - collisionRadius
    \/ point.y <= collisionRadius
    \/ point.y >= h - collisionRadius

\* selfSegments with slice(0, -1): only the growing segment is left out.
selfSegmentsButLast(segments) ==
    IF Len(segments) > 1 THEN SubSeq(segments, 1, Len(segments) - 1) ELSE <<>>

\* self.segments.slice(0, -2), taken when there are more than two segments.
selfSegments(segments) ==
    IF Len(segments) > 2 THEN SubSeq(segments, 1, Len(segments) - 2) ELSE <<>>

selfHits(point, self) == pointHitsSegments(point, selfSegments(self.segments), collisionRadius)

checkCollision(point, self, other, w, h) ==
    \/ outOfBounds(point, w, h)
    \/ pointHitsSegments(point, other.segments, collisionRadius)
    \/ selfHits(point, self)

\* The head-to-head threshold of update().
headThreshold == Px(COLLISION_RADIUS * 2)

headCollision(p, q) == distanceSq(p, q) <= headThreshold * headThreshold

\* ------------------------------------------------------------------- grid

\* Cell size of the opponent's grid, in length units.
cellSize == Px(VORONOI_STEP)

gridWidth(width) == Max(4, width \div cellSize)

gridHeight(height) == Max(4, height \div cellSize)

inGrid(x, y, w, h) == x >= 0 /\ y >= 0 /\ x < w /\ y < h

\* The loop of markSegment: the cells visited from (x, y) to (bx, by).
RECURSIVE lineCells(_, _, _, _, _, _, _, _, _)
lineCells(x, y, err, bx, by, dx, dy, sx, sy) ==
    IF x = bx /\ y = by THEN {<<x, y>>}
    ELSE LET e2 == 2 * err
             stepX == e2 >= dy
             err1 == IF stepX THEN err + dy ELSE err
             x1 == IF stepX THEN x + sx ELSE x
             stepY == e2 <= dx
             err2 == IF stepY THEN err1 + dx ELSE err1
             y1 == IF stepY THEN y + sy ELSE y
         IN  {<<x, y>>} \cup lineCells(x1, y1, err2, bx, by, dx, dy, sx, sy)

\* markCells adding the two end cells only.
markCellsEnds(ax, ay, bx, by, w, h) ==
    {c \in {<<ax, ay>>, <<bx, by>>} : inGrid(c[1], c[2], w, h)}

\* markSegment between two cells: only on-grid cells are added.
markCells(ax, ay, bx, by, w, h) ==
    LET dx == Abs(bx - ax)
        dy == -Abs(by - ay)
        sx == IF ax < bx THEN 1 ELSE -1
        sy == IF ay < by THEN 1 ELSE -1
    IN  {c \in lineCells(ax, ay, dx + dy, bx, by, dx, dy, sx, sy) :
            inGrid(c[1], c[2], w, h)}

markSegment(a, b, w, h) ==
    markCells(a.x \div cellSize, a.y \div cellSize, b.x \div cellSize, b.y \div cellSize, w, h)

markSegments(segments, w, h) ==
    UNION {markSegment(segments[i].a, segments[i].b, w, h) : i \in 1..Len(segments)}

buildOccupiedGrid(pl, op, w, h) ==
    markSegments(pl.segments, w, h) \cup markSegments(op.segments, w, h)

vectorToGridDir(dir) ==
    IF dir.x = 1 THEN Vec(1, 0)
    ELSE IF dir.x = -1 THEN Vec(-1, 0)
    ELSE IF dir.y = 1 THEN Vec(0, 1)
    ELSE Vec(0, -1)

gridDirToVec(dir) ==
    IF dir.x = 1 THEN DIRECTION_VECTORS.right
    ELSE IF dir.x = -1 THEN DIRECTION_VECTORS.left
    ELSE IF dir.y = 1 THEN DIRECTION_VECTORS.down
    ELSE DIRECTION_VECTORS.up

isSameGridDir(a, b) == a.x = b.x /\ a.y = b.y

\* Forward first, then the two turns.
getGridMoves(dir) ==
    IF dir.x = 1 THEN <<dir, Vec(0, -1), Vec(0, 1)>>
    ELSE IF dir.x = -1 THEN <<dir, Vec(0, 1), Vec(0, -1)>>
    ELSE IF dir.y = 1 THEN <<dir, Vec(1, 0), Vec(-1, 0)>>
    ELSE <<dir, Vec(-1, 0), Vec(1, 0)>>

gridState(pos, dir) ==
    [x |-> pos.x \div cellSize, y |-> pos.y \div cellSize,
     dir |-> vectorToGridDir(dir), dead |-> FALSE]

\* applyGridMove without the bounds and occupancy tests.
applyGridMoveBlind(state, dir, occupied, w, h) ==
    [x |-> state.x + dir.x, y |-> state.y + dir.y, dir |-> dir, dead |-> state.dead]

applyGridMove(state, dir, occupied, w, h) ==
    LET nx == state.x + dir.x
        ny == state.y + dir.y
    IN  [x |-> nx, y |-> ny, dir |-> dir,
         dead |-> state.dead \/ ~inGrid(nx, ny, w, h) \/ <<nx, ny>> \in occupied]

RECURSIVE clearanceFrom(_, _, _, _, _, _, _, _)
clearanceFrom(x, y, dir, steps, w, h, occupied, maxSteps) ==
    IF steps >= maxSteps THEN steps
    ELSE LET nx == x + dir.x
             ny == y + dir.y
         IN  IF ~inGrid(nx, ny, w, h) THEN steps
             ELSE IF <<nx, ny>> \in occupied THEN steps
             ELSE clearanceFrom(nx, ny, dir, steps + 1, w, h, occupied, maxSteps)

\* gridClearance counting from the cell behind the candidate cell, so that the
\* candidate cell itself is counted.
gridClearanceInclusive(state, w, h, occupied, maxSteps) ==
    clearanceFrom(state.x - state.dir.x, state.y - state.dir.y, state.dir, 0, w, h,
                  occupied, maxSteps)

gridClearance(state, w, h, occupied, maxSteps) ==
    clearanceFrom(state.x, state.y, state.dir, 0, w, h, occupied, maxSteps)

gridMovesCount(state, occupied, w, h) ==
    LET moves == getGridMoves(state.dir)
    IN  Cardinality({i \in 1..3 :
            /\ inGrid(state.x + moves[i].x, state.y + moves[i].y, w, h)
            /\ <<state.x + moves[i].x, state.y + moves[i].y>> \notin occupied})

\* The free on-grid neighbours that the cells of a set push on the queue.
pushedBy(cells, occupied, w, h) ==
    {n \in UNION {{<<c[1] + 1, c[2]>>, <<c[1] - 1, c[2]>>, <<c[1], c[2] + 1>>, <<c[1], c[2] - 1>>} :
                    c \in cells} :
        inGrid(n[1], n[2], w, h) /\ n \notin occupied}

\* The queue loop of gridVoronoiDiff, one breadth-first level at a time.  The
\* queue is first-in first-out and starts as <<ai source, player source>>, so
\* it holds the entries level by level and, inside every level, all entries
\* of owner 'ai' before all entries of owner 'player' (the entries of a level
\* are pushed by the first visits of the level before, in their order).
\* Entries of one owner commute.  fill.ai and fill.player are the cells whose
\* first visit set that owner, fill.neutral the cells later overwritten with
\* 'neutral' by an entry of the other owner; frontAi and frontPlayer are the
\* cells first visited in the level before.
RECURSIVE voronoiFill(_, _, _, _, _, _)
voronoiFill(fill, frontAi, frontPlayer, occupied, w, h) ==
    IF frontAi = {} /\ frontPlayer = {} THEN fill
    ELSE CHOOSE filled \in
             UNION {UNION {
               {voronoiFill(
                    [ai |-> fill.ai \cup newAi,
                     player |-> fill.player \cup newPlayer,
                     neutral |-> fill.neutral \cup (entries.ai \cap fill.player)
                                     \cup (entries.player \cap (fill.ai \cup newAi))],
                    newAi, newPlayer, occupied, w, h) :
                  newPlayer \in {entries.player \ (fill.ai \cup fill.player \cup newAi)}} :
                  newAi \in {entries.ai \ (fill.ai \cup fill.player)}} :
                  entries \in {[ai |-> pushedBy(frontAi, occupied, w, h),
                                player |-> pushedBy(frontPlayer, occupied, w, h)]}} : TRUE

\* The map `states` at the end of the loop, by value.
voronoiOwners(aiCell, playerCell, occupied, w, h) ==
    LET a == <<aiCell.x, aiCell.y>>
        p == <<playerCell.x, playerCell.y>>
        fill == voronoiFill([ai |-> {a},
                             player |-> {p} \ {a},
                             neutral |-> {p} \cap {a}],
                            {a}, {p} \ {a}, occupied, w, h)
    IN  [ai |-> fill.ai \ fill.neutral,
         player |-> fill.player \ fill.neutral,
         neutral |-> fill.neutral]

gridVoronoiDiff(aiCell, playerCell, occupied, w, h) ==
    LET owned == voronoiOwners(aiCell, playerCell, occupied, w, h)
    IN  Cardinality(owned.ai) - Cardinality(owned.player)

\* vor * 2.5 + mob * 0.5 + shortClear * 0.3 as a real number, times ten.
scoreTimes10(vor, mob, shortClear) == vor * 25 + mob * 5 + shortClear * 3

\* The score is computed in IEEE doubles, left to right.  vor * 2.5, mob * 0.5
\* and their sum e / 2 (e = 5 * vor + mob) are exact; 0.3 is not a double, so
\* shortClear * 0.3 is rounded and the last sum is rounded again.  scoreDrift
\* is the double the code computes minus the double nearest to the real score,
\* in halves of the unit in the last place of the latter; it is 0 outside the
\* cases listed (vor any integer, mob 0..3, shortClear 0..10).
scoreDrift(vor, mob, shortClear) ==
    LET e == 5 * vor + mob
    IN  CASE shortClear = 9 /\ e \in {-20, -19, -18, -17, -15, -14, -13, -12, -10, -9, -8,
                                      -3, -2, 0, 1, 2, 3, 5, 6, 7, 8, 10} -> -2
          [] shortClear = 9 /\ e \in {-7, -4} -> -4
          [] shortClear = 9 /\ e = -5 -> -20
          [] shortClear = 8 /\ e = -5 -> -12
          [] shortClear = 8 /\ e = -4 -> -4
          [] shortClear = 8 /\ e = -3 -> -2
          [] shortClear = 7 /\ e = -5 -> 4
          [] shortClear = 7 /\ e = -4 -> 12
          [] shortClear = 7 /\ e = -3 -> 2
          [] shortClear = 6 /\ e \in {-7, 0} -> -2
          [] shortClear = 6 /\ e \in {-5, -2} -> -4
          [] shortClear = 6 /\ e = -4 -> -12
          [] shortClear = 6 /\ e = -3 -> -6
          [] shortClear = 4 /\ e = -3 -> -2
          [] shortClear = 4 /\ e = -2 -> -4
          [] shortClear = 3 /\ e \in {-3, 0} -> -2
          [] shortClear = 3 /\ e = -2 -> -12
          [] OTHER -> 0

\* The score with the rounding of the doubles left out.
scoreExact(vor, mob, shortClear) == scoreTimes10(vor, mob, shortClear) * 64

\* The double `score` as an integer that orders as the doubles do: real scores
\* that differ are at least 0.1 apart and keep their order when rounded, and
\* equal real scores are ordered by their drift, which stays below 32.
scoreDouble(vor, mob, shortClear) ==
    scoreTimes10(vor, mob, shortClear) * 64 + scoreDrift(vor, mob, shortClear)

\* One pass of the candidate loop: survives is FALSE for a rejected candidate.
candidate(aiState, playerState, move, occupied, w, h, minShort) ==
    LET nextAi == applyGridMove(aiState, move, occupied, w, h)
        shortClear == gridClearance(nextAi, w, h, occupied, minShort)
    IN  IF nextAi.dead \/ shortClear < 2
        THEN [survives |-> FALSE, score |-> 0, vor |-> 0, mob |-> 0, shortClear |-> shortClear]
        ELSE CHOOSE c \in
                 {[survives |-> TRUE,
                   score |-> scoreDouble(vor, gridMovesCount(nextAi, occupied, w, h), shortClear),
                   vor |-> vor,
                   mob |-> gridMovesCount(nextAi, occupied, w, h),
                   shortClear |-> shortClear] :
                     vor \in {gridVoronoiDiff(nextAi, playerState, occupied, w, h)}} : TRUE

\* The three passes of the candidate loop, in the order of getGridMoves.
candidates(aiState, playerState, occupied, w, h, minShort) ==
    [i \in 1..3 |-> candidate(aiState, playerState, getGridMoves(aiState.dir)[i],
                              occupied, w, h, minShort)]

\* bestDir after the candidate loop: the first candidate of the highest score.
RECURSIVE bestMove(_, _, _, _, _)
bestMove(moves, cands, i, bestDir, bestScore) ==
    IF i > Len(moves) THEN bestDir
    ELSE IF cands[i].survives /\ (bestDir = NullDir \/ cands[i].score > bestScore)
    THEN bestMove(moves, cands, i + 1, moves[i], cands[i].score)
    ELSE bestMove(moves, cands, i + 1, bestDir, bestScore)

\* minTurnDistance with the factor of 'hard' at every difficulty.
minTurnDistanceUnscaled(spd, difficulty) == Px(120) + (spd * UnitsPerPixel * 25) \div 100

\* 120 + speed * 0.25 * (1.0 hard, 0.9 normal, 0.8 easy), in length units.
minTurnDistance(spd, difficulty) ==
    Px(120) + (spd * UnitsPerPixel * 25
                * (IF difficulty = "hard" THEN 10 ELSE IF difficulty = "normal" THEN 9 ELSE 8))
              \div 1000

\* decideAiDirection from the occupancy grid on: the direction returned
\* (NullDir for null), with the number of candidates that applyGridMove finds
\* dead, the number that survive the loop, whether the turn cooldown was on,
\* and what the candidate loop computed for the three moves.
decideOnGrid(aiState, playerState, occupied, gridW, gridH, minShort, turnCooldown) ==
    LET moves == getGridMoves(aiState.dir)
        forward == moves[1]
        decisions ==
            {LET bestDir == bestMove(moves, cands, 1, NullDir, 0)
                 forwardState == applyGridMove(aiState, forward, occupied, gridW, gridH)
                 forwardShort == gridClearance(forwardState, gridW, gridH, occupied, minShort)
             IN  [chosen |->
                      IF turnCooldown /\ bestDir # NullDir /\ isSameGridDir(forward, bestDir)
                      THEN gridDirToVec(bestDir)
                      ELSE IF turnCooldown /\ ~forwardState.dead /\ forwardShort >= 2
                      THEN gridDirToVec(forward)
                      ELSE IF bestDir # NullDir THEN gridDirToVec(bestDir)
                      ELSE NullDir,
                  deadMoves |->
                      Cardinality({i \in 1..3 :
                          applyGridMove(aiState, moves[i], occupied, gridW, gridH).dead}),
                  survivors |-> Cardinality({i \in 1..3 : cands[i].survives}),
                  cooldown |-> turnCooldown,
                  cands |-> cands] :
               cands \in {candidates(aiState, playerState, occupied, gridW, gridH, minShort)}}
    IN  CHOOSE decision \in decisions : TRUE

\* One decision of decideAiDirection on the state of the engine.
aiDecision(difficulty, width, height, pl, op, spd, distSinceTurn) ==
    LET gridW == gridWidth(width)
        gridH == gridHeight(height)
    IN  CHOOSE decision \in
            {decideOnGrid(gridState(op.pos, op.dir), gridState(pl.pos, pl.dir), occupied,
                          gridW, gridH, DIFFICULTY_CONFIG[difficulty].minShortClear,
                          distSinceTurn < minTurnDistance(spd, difficulty)) :
                occupied \in {buildOccupiedGrid(pl, op, gridW, gridH)}} : TRUE

decideAiDirection(difficulty, width, height, pl, op, spd, distSinceTurn) ==
    aiDecision(difficulty, width, height, pl, op, spd, distSinceTurn).chosen

\* ------------------------------------------------------------------ state

VARIABLES
    width, height,          \* arena size read by resize(), in length units
    player, ai,             \* PlayerState: id, pos, dir, segments
    running, paused,
    speed,                  \* px/s
    speedTimer,             \* time units
    aiDecisionTimer,        \* time units
    aiDistanceSinceTurn,    \* length units
    difficulty,
    roundEnds,              \* onRoundEnd calls since the last startRound or reset
    turnEvents,             \* onTurn calls per agent since the last resetRoundState
    moved,                  \* directions of the player's last two moves of the round
    pauseSnap,              \* the simulation state when pause() took effect
    last,                   \* the last update, turn, start, reset or resize and what it did
    probe                   \* one frame of a lone agent heading for a trail (SpecTunnel)

vars == <<width, height, player, ai, running, paused, speed, speedTimer,
          aiDecisionTimer, aiDistanceSinceTurn, difficulty,
          roundEnds, turnEvents, moved, pauseSnap, last, probe>>

SimState ==
    [player |-> player, ai |-> ai, speed |-> speed, speedTimer |-> speedTimer,
     aiDecisionTimer |-> aiDecisionTimer]

\* The record kept in `last` for a call that is not an update().
Call(op, arg, applied) ==
    [op |-> op, arg |-> arg, applied |-> applied, delta |-> 0, decided |-> FALSE,
     headHit |-> FALSE, playerHit |-> FALSE, aiHit |-> FALSE,
     playerHitBefore |-> FALSE, aiHitBefore |-> FALSE,
     playerSelfHit |-> FALSE, aiSelfHit |-> FALSE,
     headDistSq |-> 0, result |-> "none",
     chosen |-> NullDir, deadMoves |-> 0, survivors |-> 0, cooldown |-> FALSE]

\* spawn with both agents heading right.
spawnHeadingRight(id, w, h) ==
    LET at == IF id = "player"
              THEN Vec(Px(SPAWN_PADDING), h \div 2)
              ELSE Vec(w - Px(SPAWN_PADDING), h \div 2)
    IN  [id |-> id, pos |-> at, dir |-> DIRECTION_VECTORS.right,
         segments |-> <<[a |-> at, b |-> at]>>]

spawn(id, w, h) ==
    LET at == IF id = "player"
              THEN Vec(Px(SPAWN_PADDING), h \div 2)
              ELSE Vec(w - Px(SPAWN_PADDING), h \div 2)
    IN  [id |-> id, pos |-> at,
         dir |-> IF id = "player" THEN DIRECTION_VECTORS.right ELSE DIRECTION_VECTORS.left,
         segments |-> <<[a |-> at, b |-> at]>>]

\* The fields resetRoundState assigns (aiDistanceSinceTurn is not one of them).
resetRoundState ==
    /\ speed' = BASE_SPEED
    /\ speedTimer' = 0
    /\ aiDecisionTimer' = 0
    /\ player' = spawn("player", width, height)
    /\ ai' = spawn("ai", width, height)
    /\ turnEvents' = [player |-> 0, ai |-> 0]
    /\ moved' = <<>>
    /\ pauseSnap' = <<>>

\* The engine as its constructor leaves it.
constructed ==
    /\ \E arena \in Arenas : width = Px(arena[1]) /\ height = Px(arena[2])
    /\ player = spawn("player", width, height)
    /\ ai = spawn("ai", width, height)
    /\ running = FALSE
    /\ paused = FALSE
    /\ speed = BASE_SPEED
    /\ speedTimer = 0
    /\ aiDecisionTimer = 0
    /\ aiDistanceSinceTurn = 0
    /\ difficulty = "normal"
    /\ roundEnds = 0
    /\ turnEvents = [player |-> 0, ai |-> 0]
    /\ moved = <<>>
    /\ pauseSnap = <<>>
    /\ last = Call("new", "none", TRUE)

NoProbe == [speed |-> 0, delta |-> 0, gap |-> 0, ran |-> FALSE, crossed |-> FALSE, hit |-> FALSE]

Init ==
    /\ constructed
    /\ probe = NoProbe

\* ---------------------------------------------------------------- actions

StartRound ==
    /\ resetRoundState
    /\ running' = TRUE
    /\ paused' = FALSE
    /\ roundEnds' = 0
    /\ last' = Call("startRound", "none", TRUE)
    /\ UNCHANGED <<probe, width, height, aiDistanceSinceTurn, difficulty>>

Reset ==
    /\ resetRoundState
    /\ running' = FALSE
    /\ paused' = FALSE
    /\ roundEnds' = 0
    /\ last' = Call("reset", "none", TRUE)
    /\ UNCHANGED <<probe, width, height, aiDistanceSinceTurn, difficulty>>

\* pause() without its test of `running`.
PauseUnguarded ==
    /\ paused' = TRUE
    /\ pauseSnap' = IF running /\ ~paused THEN <<SimState>> ELSE pauseSnap
    /\ UNCHANGED <<probe, last, width, height, player, ai, running, speed, speedTimer, aiDecisionTimer,
                   aiDistanceSinceTurn, difficulty, roundEnds, turnEvents, moved>>

Pause ==
    /\ paused' = IF running THEN TRUE ELSE paused
    /\ pauseSnap' = IF running /\ ~paused THEN <<SimState>> ELSE pauseSnap
    /\ UNCHANGED <<probe, last, width, height, player, ai, running, speed, speedTimer, aiDecisionTimer,
                   aiDistanceSinceTurn, difficulty, roundEnds, turnEvents, moved>>

Resume ==
    /\ paused' = IF running THEN FALSE ELSE paused
    /\ pauseSnap' = IF running THEN <<>> ELSE pauseSnap
    /\ UNCHANGED <<probe, last, width, height, player, ai, running, speed, speedTimer, aiDecisionTimer,
                   aiDistanceSinceTurn, difficulty, roundEnds, turnEvents, moved>>

SetDifficulty(level) ==
    /\ difficulty' = level
    /\ UNCHANGED <<probe, last, width, height, player, ai, running, paused, speed, speedTimer,
                   aiDecisionTimer, aiDistanceSinceTurn, roundEnds, turnEvents, moved,
                   pauseSnap>>

Resize(arena) ==
    /\ width' = Px(arena[1])
    /\ height' = Px(arena[2])
    /\ last' = Call("resize", "none", TRUE)
    /\ UNCHANGED <<probe, player, ai, running, paused, speed, speedTimer, aiDecisionTimer,
                   aiDistanceSinceTurn, difficulty, roundEnds, turnEvents, moved, pauseSnap>>

\* applyDirection turning the agent round instead of taking the new direction.
applyDirectionHalfTurn(agent, dir) ==
    [agent EXCEPT !.dir = Vec(-agent.dir.x, -agent.dir.y),
                  !.segments = Append(@, [a |-> agent.pos, b |-> agent.pos])]

applyDirection(agent, dir) ==
    [agent EXCEPT !.dir = dir,
                  !.segments = Append(@, [a |-> agent.pos, b |-> agent.pos])]

\* extendSegment moving the start of the growing segment along with the head.
extendSegmentFromHead(agent, nextPos) ==
    [agent EXCEPT !.pos = nextPos,
                  !.segments[Len(agent.segments)] = [a |-> agent.pos, b |-> nextPos]]

extendSegment(agent, nextPos) ==
    [agent EXCEPT !.pos = nextPos, !.segments[Len(agent.segments)].b = nextPos]

\* turnAccepted without the isSameDirection return.
turnAcceptedRepeating(isRunning, dir, nextDir) ==
    isRunning /\ ~isOpposite(dir, nextDir)

\* turnAccepted without the `!this.running` return.
turnAcceptedWhenStopped(isRunning, dir, nextDir) ==
    ~isOpposite(dir, nextDir) /\ ~isSameDirection(dir, nextDir)

\* turnAccepted without the isOpposite return.
turnAcceptedReversing(isRunning, dir, nextDir) ==
    isRunning /\ ~isSameDirection(dir, nextDir)

\* The guards of setPlayerDirection: TRUE when the call goes on to applyDirection.
turnAccepted(isRunning, dir, nextDir) ==
    isRunning /\ ~isOpposite(dir, nextDir) /\ ~isSameDirection(dir, nextDir)

SetPlayerDirection(direction, maxTurns) ==
    LET nextDir == DIRECTION_VECTORS[direction]
        accepted == turnAccepted(running, player.dir, nextDir)
    IN  /\ accepted => turnEvents.player < maxTurns
        /\ player' = IF accepted THEN applyDirection(player, nextDir) ELSE player
        /\ turnEvents' = IF accepted THEN [turnEvents EXCEPT !.player = @ + 1] ELSE turnEvents
        /\ last' = Call("setPlayerDirection", direction, accepted)
        /\ UNCHANGED <<probe, width, height, ai, running, paused, speed, speedTimer,
                       aiDecisionTimer, aiDistanceSinceTurn, difficulty, roundEnds, moved,
                       pauseSnap>>

\* ----------------------------------------------------------------- update

speedInterval == SPEED_INTERVAL * TicksPerSecond

\* rampedSpeed without Math.min(MAX_SPEED, ...).
rampedSpeedUncapped(spd, timer) ==
    IF timer >= speedInterval
    THEN spd + (timer \div speedInterval) * SPEED_STEP
    ELSE spd

\* rampedSpeed leaving the agents without speed.
rampedSpeedStalled(spd, timer) == 0

\* The speed ramp of update(): speed and speedTimer after speedTimer += delta.
rampedSpeed(spd, timer) ==
    IF timer >= speedInterval
    THEN Min(MAX_SPEED, spd + (timer \div speedInterval) * SPEED_STEP)
    ELSE spd

rampedTimer(timer) ==
    IF timer >= speedInterval THEN timer - (timer \div speedInterval) * speedInterval ELSE timer

\* speed * delta, in length units.
moveDistance(spd, delta) == (spd * delta * UnitsPerPixel) \div TicksPerSecond

candidatePos(agent, dist) ==
    Vec(agent.pos.x + agent.dir.x * dist, agent.pos.y + agent.dir.y * dist)

\* aiDecides one frame ahead of the timer.
aiDecidesEarly(timer, delta) == ~(timer - 2 * delta > 0)

\* updateAI goes on to a decision unless the timer is still positive.
aiDecides(timer, delta) == ~(timer - delta > 0)

\* roundResult with the single-hit branches tried before the tie.
roundResultTieLast(headHit, playerHit, aiHit) ==
    IF playerHit /\ ~headHit THEN "ai"
    ELSE IF aiHit /\ ~headHit THEN "player"
    ELSE IF headHit THEN "tie"
    ELSE "none"

\* roundResult with the player's own hit settling the round before the tie.
roundResultPlayerFirst(headHit, playerHit, aiHit) ==
    IF playerHit THEN "ai"
    ELSE IF headHit \/ aiHit THEN IF headHit THEN "tie" ELSE "player"
    ELSE "none"

\* The if-chain of update() over the three booleans.
roundResult(headHit, playerHit, aiHit) ==
    IF headHit \/ (playerHit /\ aiHit) THEN "tie"
    ELSE IF playerHit THEN "ai"
    ELSE IF aiHit THEN "player"
    ELSE "none"

\* endRound without `this.running = false`.
endRoundStillRunning(isRunning) == isRunning

\* endRound(result) called by a running update(): the new value of `running`.
endRound(isRunning) == FALSE

\* aiDistanceSinceTurn is read only by `aiDistanceSinceTurn < minTurnDistance`,
\* and minTurnDistance never exceeds this value: the model stops counting here.
aiDistanceCap == minTurnDistance(MAX_SPEED, "hard")

\* updateAI(delta): the timer, whether a decision was taken, whether it turned
\* the opponent, the opponent afterwards, and what the decision was.
updateAI(delta, spd) ==
    IF ~aiDecides(aiDecisionTimer, delta)
    THEN [decided |-> FALSE, turned |-> FALSE, timer |-> aiDecisionTimer - delta, ai |-> ai,
          chosen |-> NullDir, deadMoves |-> 0, survivors |-> 0, cooldown |-> FALSE]
    ELSE CHOOSE step \in
             {[decided |-> TRUE,
               turned |-> d.chosen # NullDir /\ ~isSameDirection(ai.dir, d.chosen),
               timer |-> DIFFICULTY_CONFIG[difficulty].decisionInterval,
               ai |-> IF d.chosen # NullDir /\ ~isSameDirection(ai.dir, d.chosen)
                      THEN applyDirection(ai, d.chosen)
                      ELSE ai,
               chosen |-> d.chosen, deadMoves |-> d.deadMoves,
               survivors |-> d.survivors, cooldown |-> d.cooldown] :
                 d \in {aiDecision(difficulty, width, height, player, ai, spd,
                                   aiDistanceSinceTurn)}} : TRUE

\* The body of update(delta).  The values a frame computes once are bound one after the
\* other, in the order of the code: the ramp, updateAI, the two candidate
\* positions, the two extendSegment calls, then the three booleans.
updateFrame(delta) ==
    IF ~running \/ paused
    THEN /\ last' = Call("update", "none", FALSE)
         /\ UNCHANGED <<width, height, player, ai, running, paused, speed, speedTimer,
                        aiDecisionTimer, aiDistanceSinceTurn, difficulty, roundEnds,
                        turnEvents, moved, pauseSnap>>
    ELSE \E speed1 \in {rampedSpeed(speed, speedTimer + delta)} :
         \E aiStep \in {updateAI(delta, speed1)} :
         \E dist \in {moveDistance(speed1, delta)} :
         \E nextPlayerPos \in {candidatePos(player, dist)} :
         \E nextAiPos \in {candidatePos(aiStep.ai, dist)} :
         \E player2 \in {extendSegment(player, nextPlayerPos)} :
         \E ai2 \in {extendSegment(aiStep.ai, nextAiPos)} :
         \E playerHit \in {checkCollision(nextPlayerPos, player2, ai2, width, height)} :
         \E aiHit \in {checkCollision(nextAiPos, ai2, player2, width, height)} :
         \E headHit \in {headCollision(nextPlayerPos, nextAiPos)} :
         \E result \in {roundResult(headHit, playerHit, aiHit)} :
             /\ speed' = speed1
             /\ speedTimer' = rampedTimer(speedTimer + delta)
             /\ aiDecisionTimer' = aiStep.timer
             /\ aiDistanceSinceTurn' =
                    Min(aiDistanceCap,
                        (IF aiStep.turned THEN 0 ELSE aiDistanceSinceTurn) + dist)
             /\ player' = player2
             /\ ai' = ai2
             /\ running' = IF result = "none" THEN running ELSE endRound(running)
             /\ roundEnds' = IF result = "none" THEN roundEnds ELSE roundEnds + 1
             /\ turnEvents' = IF aiStep.turned
                              THEN [turnEvents EXCEPT !.ai = @ + 1]
                              ELSE turnEvents
             /\ moved' = IF moved = <<>> THEN <<player.dir>>
                         ELSE <<moved[Len(moved)], player.dir>>
             /\ last' = [op |-> "update", arg |-> "none", applied |-> TRUE, delta |-> delta,
                         decided |-> aiStep.decided,
                         headHit |-> headHit, playerHit |-> playerHit, aiHit |-> aiHit,
                         playerHitBefore |->
                             checkCollision(nextPlayerPos, player2, ai, width, height),
                         aiHitBefore |->
                             checkCollision(nextAiPos, ai2, player, width, height),
                         playerSelfHit |-> selfHits(nextPlayerPos, player2),
                         aiSelfHit |-> selfHits(nextAiPos, ai2),
                         headDistSq |-> distanceSq(nextPlayerPos, nextAiPos),
                         result |-> result,
                         chosen |-> aiStep.chosen, deadMoves |-> aiStep.deadMoves,
                         survivors |-> aiStep.survivors, cooldown |-> aiStep.cooldown]
             /\ UNCHANGED <<width, height, paused, difficulty, pauseSnap>>

\* update(delta) as the animation loop calls it.
Tick(delta) == updateFrame(delta) /\ UNCHANGED probe

Next ==
    \/ StartRound
    \/ Reset
    \/ Pause
    \/ Resume
    \/ \E level \in Difficulties : SetDifficulty(level)
    \/ \E arena \in Arenas : Resize(arena)
    \/ \E direction \in Directions : SetPlayerDirection(direction, MaxTurns)
    \/ \E delta \in Deltas : Tick(delta)

\* Every call of the engine's interface, in any order.
Spec == Init /\ [][Next]_vars

NextDuel ==
    \/ StartRound
    \/ \E direction \in Directions : SetPlayerDirection(direction, DuelTurns)
    \/ \E delta \in Deltas : Tick(delta)

\* Rounds played without pausing: start, the player's turns and the frames.
SpecDuel == Init /\ [][NextDuel]_vars

\* The arena of the end-to-end scenario, in pixels, and the frame times played
\* in it (in ticks of 1/240 s; 12 is the clamp).
HeadOnArena == <<800, 600>>
HeadOnDeltas == {6, 12}

InitHeadOn ==
    /\ width = Px(HeadOnArena[1]) /\ height = Px(HeadOnArena[2])
    /\ player = spawn("player", width, height)
    /\ ai = spawn("ai", width, height)
    /\ running = FALSE
    /\ paused = FALSE
    /\ speed = BASE_SPEED
    /\ speedTimer = 0
    /\ aiDecisionTimer = 0
    /\ aiDistanceSinceTurn = 0
    /\ difficulty = "normal"
    /\ roundEnds = 0
    /\ turnEvents = [player |-> 0, ai |-> 0]
    /\ moved = <<>>
    /\ pauseSnap = <<>>
    /\ last = Call("new", "none", TRUE)
    /\ probe = NoProbe

NextHeadOn ==
    \/ ~running /\ roundEnds = 0 /\ \E level \in Difficulties : SetDifficulty(level)
    \/ ~running /\ roundEnds = 0 /\ StartRound
    \/ \E delta \in HeadOnDeltas : running /\ turnEvents.ai = 0 /\ Tick(delta)

\* One round on the 800 x 600 arena, at any difficulty, in which the player
\* never steers, followed until it ends or the opponent turns off the line.
SpecHeadOn == InitHeadOn /\ [][NextHeadOn]_vars

\* A step in which update() went past its early return and moved the agents.
frameStep ==
    /\ running /\ ~paused
    /\ last'.op = "update" /\ last'.applied
    /\ speedTimer' # speedTimer

\* Strong fairness of the frames, SF_vars(\E delta \in Deltas : running /\ ~paused
\* /\ Tick(delta)), written out: such a frame is enabled exactly when the round
\* is running and not paused.  requestAnimationFrame keeps calling the loop.
FairFrames == <>[](~running \/ paused) \/ []<><<frameStep>>_vars

NextLive ==
    \/ ~running /\ StartRound
    \/ ~running /\ \E level \in Difficulties : SetDifficulty(level)
    \/ Pause
    \/ Resume
    \/ \E direction \in Directions : SetPlayerDirection(direction, MaxTurns)
    \/ \E delta \in Deltas : Tick(delta)

\* A round is left to play: it is started, and its difficulty chosen, only
\* while no round runs; a pause is followed by resume(); and the frame loop of
\* startLoop keeps calling update() while the round is not paused.
SpecLive == Init /\ [][NextLive]_vars /\ WF_vars(Resume) /\ FairFrames

\* ------------------------------------------- one frame towards a trail

\* The speeds the ramp of update() takes: BASE_SPEED, then SPEED_STEP more
\* every SPEED_INTERVAL, up to MAX_SPEED.
RampSpeeds ==
    {BASE_SPEED + k * SPEED_STEP : k \in 0..((MAX_SPEED - BASE_SPEED) \div SPEED_STEP)}

\* How many start distances beyond the collision radius the frame is tried from.
GapSpan == 12

\* Distances (length units) between the agent and the trail before the frame:
\* the agent is outside the collision radius of the trail.
TunnelGaps == (collisionRadius + 1)..(collisionRadius + GapSpan)

\* A trail crossing the arena from top to bottom at mid-width.
tunnelTrail ==
    [id |-> "ai", pos |-> Vec(width \div 2, height - Px(SPAWN_PADDING \div 2)),
     dir |-> DIRECTION_VECTORS.down,
     segments |-> <<[a |-> Vec(width \div 2, Px(SPAWN_PADDING \div 2)),
                     b |-> Vec(width \div 2, height - Px(SPAWN_PADDING \div 2))]>>]

\* An agent heading right at mid-height, `gap` short of the trail.
tunnelAgent(gap) ==
    [id |-> "player", pos |-> Vec(width \div 2 - gap, height \div 2),
     dir |-> DIRECTION_VECTORS.right,
     segments |-> <<[a |-> Vec(Px(SPAWN_PADDING \div 2), height \div 2),
                     b |-> Vec(width \div 2 - gap, height \div 2)]>>]

InitTunnel ==
    /\ constructed
    /\ probe \in [speed : RampSpeeds, delta : Deltas, gap : TunnelGaps,
                  ran : {FALSE}, crossed : {FALSE}, hit : {FALSE}]

\* The motion and the collision check of update() for the agent of the probe.
TunnelTick ==
    /\ ~probe.ran
    /\ \E dist \in {moveDistance(probe.speed, probe.delta)} :
       \E agent \in {tunnelAgent(probe.gap)} :
       \E nextPos \in {candidatePos(agent, dist)} :
       \E agent2 \in {extendSegment(agent, nextPos)} :
           probe' = [probe EXCEPT
                        !.ran = TRUE,
                        !.crossed = agent.pos.x < tunnelTrail.pos.x
                                    /\ nextPos.x > tunnelTrail.pos.x,
                        !.hit = checkCollision(nextPos, agent2, tunnelTrail, width, height)]
    /\ UNCHANGED <<width, height, player, ai, running, paused, speed, speedTimer,
                   aiDecisionTimer, aiDistanceSinceTurn, difficulty, roundEnds,
                   turnEvents, moved, pauseSnap, last>>

NextTunnel == TunnelTick

\* One frame of an agent about to cross a trail, at every speed of the ramp.
SpecTunnel == InitTunnel /\ [][NextTunnel]_vars

\* ------------------------------------------- markSegment on its own

\* Segments are drawn between points of the first RasterSide x RasterSide
\* cells of the grid.
RasterSide == 4

\* Where in its cell an end point lies, along each axis: a quarter of the cell
\* in, or at the centre.
RasterOffsets == {cellSize \div 4, cellSize \div 2}

RasterPoints ==
    {Vec(cx * cellSize + ox, cy * cellSize + oy) :
        cx \in 0..(RasterSide - 1), cy \in 0..(RasterSide - 1),
        ox \in RasterOffsets, oy \in RasterOffsets}

InitRaster ==
    /\ constructed
    /\ probe \in [a : RasterPoints, b : RasterPoints, ran : {FALSE}, marked : {{}}]

\* markSegment(a, b) on an empty occupancy grid of the arena.
Rasterize ==
    /\ ~probe.ran
    /\ probe' = [probe EXCEPT
                    !.ran = TRUE,
                    !.marked = markSegment(probe.a, probe.b,
                                           gridWidth(width), gridHeight(height))]
    /\ UNCHANGED <<width, height, player, ai, running, paused, speed, speedTimer,
                   aiDecisionTimer, aiDistanceSinceTurn, difficulty, roundEnds,
                   turnEvents, moved, pauseSnap, last>>

NextRaster == Rasterize

\* One segment rasterized into the grid, for every pair of end points.
SpecRaster == InitRaster /\ [][NextRaster]_vars

\* ---------------------------------------- gridVoronoiDiff on its own

\* Grids of VoronoiMin to VoronoiMax cells a side (gridW and gridH are never
\* less than 4).
VoronoiMin == 4
VoronoiMax == 5

\* An empty grid with the two sources mirror images of each other about the
\* vertical or the horizontal centre line of the grid.
VoronoiInputs ==
    UNION {UNION {
        {[w |-> w, h |-> h, ai |-> [x |-> c[1], y |-> c[2]],
          player |-> [x |-> w - 1 - c[1], y |-> c[2]], axis |-> "vertical"],
         [w |-> w, h |-> h, ai |-> [x |-> c[1], y |-> c[2]],
          player |-> [x |-> c[1], y |-> h - 1 - c[2]], axis |-> "horizontal"]} :
            c \in (0..(w - 1)) \X (0..(h - 1))} :
        w \in VoronoiMin..VoronoiMax, h \in VoronoiMin..VoronoiMax}

InitVoronoi ==
    /\ constructed
    /\ \E input \in VoronoiInputs :
           /\ input.ai # input.player
           /\ probe = [input |-> input, ran |-> FALSE, diff |-> 0]

\* gridVoronoiDiff(ai, player, occupied, w, h) with nothing occupied.
VoronoiDiff ==
    /\ ~probe.ran
    /\ probe' = [probe EXCEPT
                    !.ran = TRUE,
                    !.diff = gridVoronoiDiff(probe.input.ai, probe.input.player, {},
                                             probe.input.w, probe.input.h)]
    /\ UNCHANGED <<width, height, player, ai, running, paused, speed, speedTimer,
                   aiDecisionTimer, aiDistanceSinceTurn, difficulty, roundEnds,
                   turnEvents, moved, pauseSnap, last>>

NextVoronoi == VoronoiDiff

\* The territory differential of every pair of mirrored sources.
SpecVoronoi == InitVoronoi /\ [][NextVoronoi]_vars

\* ------------------------------------ decideAiDirection on its own

\* A grid of DecideW x DecideH cells.
DecideW == 16
DecideH == 4

\* Trail cells that leave a corridor along row 1 with openings to both sides.
DecideWalls ==
    {<<3, 2>>, <<4, 0>>, <<4, 2>>, <<5, 0>>, <<5, 3>>, <<6, 3>>, <<7, 0>>, <<7, 2>>,
     <<8, 0>>, <<8, 2>>, <<9, 0>>, <<9, 3>>, <<10, 3>>, <<11, 2>>, <<12, 0>>, <<12, 2>>,
     <<13, 0>>, <<13, 2>>, <<14, 3>>, <<15, 2>>}

\* The occupancy grids: the empty grid, the walls, and the walls less one cell.
DecideGrids == {{}, DecideWalls} \cup {DecideWalls \ {c} : c \in DecideWalls}

\* The cells of the player.
DecidePlayers == {<<12, 1>>, <<0, 1>>}

\* The speeds (base and maximum) and the distances since the last turn: 174 px
\* and 237 px are the turn distances of 'normal' at the two speeds, between
\* those of 'easy' (168 px, 224 px) and 'hard' (180 px, 250 px).
DecideSpeeds == {BASE_SPEED, MAX_SPEED}
DecideDistances == {Px(174), Px(237)}

\* An occupancy grid, the AI on a free cell of it with any heading (its own
\* cell is occupied, as the head of a trail is), the player on another free
\* cell, a difficulty, a speed and a distance since the last turn.
InitDecide ==
    /\ constructed
    /\ \E walls \in DecideGrids, cell \in (0..(DecideW - 1)) \X (0..(DecideH - 1)),
          heading \in Directions, pc \in DecidePlayers, level \in Difficulties,
          spd \in DecideSpeeds, dist \in DecideDistances :
           /\ cell \notin walls
           /\ pc \notin walls \cup {cell}
           /\ probe = [input |-> [occupied |-> walls \cup {cell},
                                  ai |-> [x |-> cell[1], y |-> cell[2],
                                          dir |-> vectorToGridDir(DIRECTION_VECTORS[heading]),
                                          dead |-> FALSE],
                                  player |-> [x |-> pc[1], y |-> pc[2],
                                              dir |-> Vec(1, 0), dead |-> FALSE],
                                  difficulty |-> level, speed |-> spd,
                                  aiDistanceSinceTurn |-> dist],
                       ran |-> FALSE, chosen |-> NullDir, cooldown |-> FALSE,
                       cands |-> <<>>]

\* decideAiDirection from the occupancy grid on.
Decide ==
    /\ ~probe.ran
    /\ \E d \in {decideOnGrid(probe.input.ai, probe.input.player, probe.input.occupied,
                              DecideW, DecideH,
                              DIFFICULTY_CONFIG[probe.input.difficulty].minShortClear,
                              probe.input.aiDistanceSinceTurn
                                  < minTurnDistance(probe.input.speed, probe.input.difficulty))} :
           probe' = [probe EXCEPT !.ran = TRUE, !.chosen = d.chosen,
                                  !.cooldown = d.cooldown, !.cands = d.cands]
    /\ UNCHANGED <<width, height, player, ai, running, paused, speed, speedTimer,
                   aiDecisionTimer, aiDistanceSinceTurn, difficulty, roundEnds,
                   turnEvents, moved, pauseSnap, last>>

NextDecide == Decide

\* One AI decision on every grid, AI cell and heading, player cell,
\* difficulty, speed and distance of InitDecide.
SpecDecide == InitDecide /\ [][NextDecide]_vars

\* ------------------------------------- the cadence of the AI decisions

\* Frame times of the cadence runs (10 is 1/24 s, 12 the clamp 0.05 s) and the
\* running time, in ticks of 1/240 s, over which decisions are counted.
CadenceDeltas == {10, 12}
CadenceSpan == 36

\* The rounds are played on the 800 x 600 arena, where the agents are 640 px
\* apart at the start.  probe.time and probe.decisions count the running time and the decisions
\* of the round played by the engine; the shadow fields do the same for the
\* decision timer of a second round of the same difficulty, given frames of
\* its own.
InitCadence ==
    /\ width = Px(HeadOnArena[1]) /\ height = Px(HeadOnArena[2])
    /\ player = spawn("player", width, height)
    /\ ai = spawn("ai", width, height)
    /\ running = FALSE
    /\ paused = FALSE
    /\ speed = BASE_SPEED
    /\ speedTimer = 0
    /\ aiDecisionTimer = 0
    /\ aiDistanceSinceTurn = 0
    /\ difficulty = "normal"
    /\ roundEnds = 0
    /\ turnEvents = [player |-> 0, ai |-> 0]
    /\ moved = <<>>
    /\ pauseSnap = <<>>
    /\ last = Call("new", "none", TRUE)
    /\ probe = [time |-> 0, decisions |-> 0,
                shadowTimer |-> 0, shadowTime |-> 0, shadowDecisions |-> 0]

CadenceStart ==
    /\ ~running /\ roundEnds = 0
    /\ resetRoundState
    /\ running' = TRUE
    /\ paused' = FALSE
    /\ roundEnds' = 0
    /\ last' = Call("startRound", "none", TRUE)
    /\ UNCHANGED <<probe, width, height, aiDistanceSinceTurn, difficulty>>

\* A frame of the round played by the engine.
CadenceTick(delta) ==
    /\ running /\ probe.time + delta <= CadenceSpan
    /\ updateFrame(delta)
    /\ probe' = [probe EXCEPT !.time = @ + delta,
                              !.decisions = IF last'.decided THEN @ + 1 ELSE @]

\* A frame of the second round: the timer lines of updateAI alone.
ShadowTick(delta) ==
    /\ running /\ probe.shadowTime + delta <= CadenceSpan
    /\ probe' = [probe EXCEPT
                    !.shadowTime = @ + delta,
                    !.shadowTimer = IF aiDecides(probe.shadowTimer, delta)
                                    THEN DIFFICULTY_CONFIG[difficulty].decisionInterval
                                    ELSE probe.shadowTimer - delta,
                    !.shadowDecisions = IF aiDecides(probe.shadowTimer, delta)
                                        THEN @ + 1 ELSE @]
    /\ UNCHANGED <<width, height, player, ai, running, paused, speed, speedTimer,
                   aiDecisionTimer, aiDistanceSinceTurn, difficulty, roundEnds,
                   turnEvents, moved, pauseSnap, last>>

NextCadence ==
    \/ ~running /\ roundEnds = 0 /\ \E level \in Difficulties : SetDifficulty(level)
    \/ CadenceStart
    \/ \E delta \in CadenceDeltas : CadenceTick(delta)
    \/ \E delta \in CadenceDeltas : ShadowTick(delta)

\* Two rounds of one difficulty, each with its own division of time into frames.
SpecCadence == InitCadence /\ [][NextCadence]_vars

\* ------------------------------------ the time between two decisions

\* How often the difficulty is changed while the round is running.
PaceChanges == 1

\* probe.since is the running time since the latest decision of the round,
\* probe.armed the decisionInterval of the difficulty in force when it was
\* taken, probe.decisions the number of decisions of the round.
InitPace ==
    /\ constructed
    /\ probe = [since |-> 0, armed |-> 0, decisions |-> 0, changes |-> 0]

\* setDifficulty(level), counted while the round is running.
PaceDifficulty(level) ==
    /\ roundEnds = 0
    /\ running => probe.changes < PaceChanges
    /\ difficulty' = level
    /\ probe' = IF running THEN [probe EXCEPT !.changes = @ + 1] ELSE probe
    /\ UNCHANGED <<last, width, height, player, ai, running, paused, speed, speedTimer,
                   aiDecisionTimer, aiDistanceSinceTurn, roundEnds, turnEvents, moved,
                   pauseSnap>>

PaceTick(delta) ==
    /\ running
    /\ updateFrame(delta)
    /\ probe' = IF last'.decided
                THEN [probe EXCEPT !.since = 0,
                                   !.armed = DIFFICULTY_CONFIG[difficulty].decisionInterval,
                                   !.decisions = @ + 1]
                ELSE [probe EXCEPT !.since = @ + delta]

NextPace ==
    \/ \E level \in Difficulties : PaceDifficulty(level)
    \/ CadenceStart
    \/ \E direction \in Directions : SetPlayerDirection(direction, MaxTurns)
    \/ \E delta \in CadenceDeltas : PaceTick(delta)

\* One round on the small arena, the difficulty set before it and changed
\* during it, with the time since the latest decision kept in the probe.
SpecPace == InitPace /\ [][NextPace]_vars

\* ------------------------------------------------- the speed ramp alone

\* Frame times of the ramp: every multiple of the time unit up to the clamp.
RampDeltas == 1..MaxDelta

\* The speed ramp of update() in a round that keeps running: speed and
\* speedTimer advance as in update(), the agents are left where they are.
RampTick(delta) ==
    /\ running /\ ~paused
    /\ speed' = rampedSpeed(speed, speedTimer + delta)
    /\ speedTimer' = rampedTimer(speedTimer + delta)
    /\ last' = [Call("update", "none", TRUE) EXCEPT !.delta = delta]
    /\ UNCHANGED <<probe, width, height, player, ai, running, paused, aiDecisionTimer,
                   aiDistanceSinceTurn, difficulty, roundEnds, turnEvents, moved,
                   pauseSnap>>

NextRamp ==
    \/ StartRound
    \/ \E delta \in RampDeltas : RampTick(delta)

\* Rounds of any length, seen through speed and speedTimer only.
SpecRamp == Init /\ [][NextRamp]_vars

\* ------------------------------------- the speed ramp in doubles

\* Frames of 0.0125 s, 0.025 s and 0.05 s (the clamp), in ticks, and the
\* running time over which the ramp is followed (6 s, in ticks).
RampFrames == {3, 6, 12}
RampSpan == 1440

\* speedTimer is a double.  None of the three frame times is one: the double
\* of 0.05 is 0.05 s + 8 q, with q = 2^-57 / 20 s, and the doubles of 0.025 and
\* 0.0125 are its half and its quarter.  In units of q, 0.0125 s is 2^55 and the
\* doubles between 2^b and 2^(b+1) seconds are the multiples of 5 * 2^(b+7).
\* The double speedTimer is held as its nominal value (speedTimer, in ticks)
\* plus a drift of a few q (probe.drift).

\* 2^n modulo 5.
powerOfTwoMod5(n) == <<1, 2, 4, 3>>[(n % 4) + 1]

\* 2^55 modulo 5 * 2^j.
nominalMod(j) == (2 ^ j) * powerOfTwoMod5(55 - j)

\* j such that the doubles near k * 0.0125 s + drift are 5 * 2^j q apart.
spacingExponent(k, drift) ==
    LET atLeast(kb) == k > kb \/ (k = kb /\ drift >= 0)
    IN  CASE atLeast(320) -> 9
          [] ~atLeast(320) /\ atLeast(160) -> 8
          [] ~atLeast(160) /\ atLeast(80) -> 7
          [] ~atLeast(80) /\ atLeast(40) -> 6
          [] ~atLeast(40) /\ atLeast(20) -> 5
          [] ~atLeast(20) /\ atLeast(10) -> 4
          [] ~atLeast(10) /\ atLeast(5) -> 3
          [] ~atLeast(5) /\ k >= 3 -> 2
          [] k = 2 -> 1
          [] OTHER -> 0

\* doubleAdd without the rounding: the real sum of the two doubles.
doubleAddReal(ticks, drift, delta) ==
    [ticks |-> ticks + delta, drift |-> drift + 2 * (delta \div 3)]

\* speedTimer += delta in doubles, rounded to nearest, ties to the even
\* multiple: the nominal ticks and the drift of the sum.
doubleAdd(ticks, drift, delta) ==
    LET k == (ticks + delta) \div 3
        raw == drift + 2 * (delta \div 3)
        j == spacingExponent(k, raw)
        spacing == 5 * (2 ^ j)
        rest == (k * nominalMod(j) + raw) % spacing
        restOfTwo == (k * nominalMod(j + 1) + raw) % (2 * spacing)
        down == 2 * rest < spacing \/ (2 * rest = spacing /\ restOfTwo = rest)
    IN  [ticks |-> ticks + delta,
         drift |-> IF down THEN raw - rest ELSE raw + spacing - rest]

\* this.speedTimer >= SPEED_INTERVAL on the double.
atLeastInterval(timer) ==
    timer.ticks > speedInterval \/ (timer.ticks = speedInterval /\ timer.drift >= 0)

InitRampDouble ==
    /\ constructed
    /\ probe = [time |-> 0, drift |-> 0]

\* startRound, with the running time counted from it.
RampStart ==
    /\ resetRoundState
    /\ running' = TRUE
    /\ paused' = FALSE
    /\ roundEnds' = 0
    /\ last' = Call("startRound", "none", TRUE)
    /\ probe' = [time |-> 0, drift |-> 0]
    /\ UNCHANGED <<width, height, aiDistanceSinceTurn, difficulty>>

\* The early return and the speed ramp of update(), the agents left where
\* they are.  steps is 1 whenever the timer has reached the interval, since a
\* frame is at most 0.05 s, and the subtraction of 5 is exact.
RampFrame(delta) ==
    /\ probe.time + delta <= RampSpan
    /\ IF ~running \/ paused
       THEN /\ last' = Call("update", "none", FALSE)
            /\ UNCHANGED <<probe, speed, speedTimer>>
       ELSE \E timer \in {doubleAdd(speedTimer, probe.drift, delta)} :
                /\ speed' = IF atLeastInterval(timer)
                            THEN Min(MAX_SPEED, speed + (timer.ticks \div speedInterval) * SPEED_STEP)
                            ELSE speed
                /\ speedTimer' = IF atLeastInterval(timer)
                                 THEN timer.ticks - (timer.ticks \div speedInterval) * speedInterval
                                 ELSE timer.ticks
                /\ probe' = [time |-> probe.time + delta, drift |-> timer.drift]
                /\ last' = [Call("update", "none", TRUE) EXCEPT !.delta = delta]
    /\ UNCHANGED <<width, height, player, ai, running, paused, aiDecisionTimer,
                   aiDistanceSinceTurn, difficulty, roundEnds, turnEvents, moved,
                   pauseSnap>>

NextRampDouble ==
    \/ RampStart
    \/ Pause
    \/ Resume
    \/ \E delta \in RampFrames : RampFrame(delta)

\* Rounds with pauses, seen through speed and the double speedTimer, with the
\* running time since startRound kept in the probe.
SpecRampDouble == InitRampDouble /\ [][NextRampDouble]_vars

\* ------------------------------------------- a round and its rematch

\* The arena of the two rounds, in pixels, and the frames of a round that are
\* followed.  Every frame lasts the clamp, 0.05 s.
RematchArena == <<362, 264>>
RematchFrames == 11

\* What the player does in both rounds: nothing, or one turn before frame
\* `at` + 1.
RematchPlans ==
    {[turn |-> "none", at |-> 0]}
        \cup {[turn |-> t, at |-> n] : t \in {"up", "down"}, n \in 0..1}

\* What a round shows after a frame.
RoundView == [player |-> player, ai |-> ai, running |-> running, result |-> last.result]

\* probe.round counts the rounds started, probe.at the frames of the round,
\* probe.seen holds the views of the first round, frame by frame.
InitRematch ==
    /\ width = Px(RematchArena[1]) /\ height = Px(RematchArena[2])
    /\ player = spawn("player", width, height)
    /\ ai = spawn("ai", width, height)
    /\ running = FALSE
    /\ paused = FALSE
    /\ speed = BASE_SPEED
    /\ speedTimer = 0
    /\ aiDecisionTimer = 0
    /\ aiDistanceSinceTurn = 0
    /\ difficulty = "normal"
    /\ roundEnds = 0
    /\ turnEvents = [player |-> 0, ai |-> 0]
    /\ moved = <<>>
    /\ pauseSnap = <<>>
    /\ last = Call("new", "none", TRUE)
    /\ \E plan \in RematchPlans : probe = [plan |-> plan, round |-> 0, at |-> 0, seen |-> <<>>]

\* startRound: the first round of the engine, or the second one, started at
\* any time after a frame of the first.
RematchStart ==
    /\ probe.round = 0 \/ (probe.round = 1 /\ probe.at >= 1)
    /\ resetRoundState
    /\ running' = TRUE
    /\ paused' = FALSE
    /\ roundEnds' = 0
    /\ last' = Call("startRound", "none", TRUE)
    /\ probe' = [probe EXCEPT !.round = @ + 1, !.at = 0]
    /\ UNCHANGED <<width, height, aiDistanceSinceTurn, difficulty>>

\* The player's turn of the plan, at the same frame in both rounds.
RematchTurn ==
    /\ running /\ turnEvents.player = 0
    /\ probe.plan.turn # "none" /\ probe.at = probe.plan.at
    /\ SetPlayerDirection(probe.plan.turn, 1)

\* A frame of 0.05 s; the second round gets as many frames as the first.
RematchFrame ==
    /\ running
    /\ (probe.plan.turn # "none" /\ probe.at = probe.plan.at) => turnEvents.player = 1
    /\ probe.at < (IF probe.round = 1 THEN RematchFrames ELSE Len(probe.seen))
    /\ updateFrame(MaxDelta)
    /\ probe' = [probe EXCEPT !.at = @ + 1,
                              !.seen = IF probe.round = 1 THEN Append(@, RoundView') ELSE @]

NextRematch ==
    \/ probe.round = 0 /\ \E level \in Difficulties : SetDifficulty(level)
    \/ RematchStart
    \/ RematchTurn
    \/ RematchFrame

\* The first round of an engine and a second round of the same arena and
\* difficulty, given the same frames and the same turn of the player.
SpecRematch == InitRematch /\ [][NextRematch]_vars

\* ------------------------------------------------------------ App

\* The component App around the engine.  React's state lives in `probe`:
\*   status, score, roundWinner, roundsToWin   the state last rendered;
\*   roundsToWinRef                            roundsToWinRef.current;
\*   handler     the status closed over by the registered handleKeyDown
\*               (and by the startRound it calls);
\*   queue       the state updates not rendered yet, oldest first;
\*   base        score and roundWinner before the updates of `queue`.
\* Updates made in a key handler are rendered, and the effects of that render
\* run, before anything else happens (a discrete event); the updates of
\* handleRoundEnd, made in the engine's frame callback, wait for a render of
\* their own, and the effects of that render (the registration of the new
\* handleKeyDown among them) run in a later task.
Statuses == {"idle", "running", "paused", "round_over", "match_over"}
RoundResults == {"player", "ai", "tie"}
ROUND_OPTIONS == {1, 3, 5, 7, 9}

\* Rounds to win offered in the model, and the round ends that may wait for
\* their render at one time.
RoundChoices == {1, 3, 5}
MaxPending == 1

NoScore == [player |-> 0, ai |-> 0]

\* The updater of handleRoundEnd with a tie counted for both sides.
tallyTieBoth(prev, result) ==
    [player |-> prev.player + (IF result \in {"player", "tie"} THEN 1 ELSE 0),
     ai |-> prev.ai + (IF result \in {"ai", "tie"} THEN 1 ELSE 0)]

\* The updater of handleRoundEnd: the next score.
tally(prev, result) ==
    [player |-> prev.player + (IF result = "player" THEN 1 ELSE 0),
     ai |-> prev.ai + (IF result = "ai" THEN 1 ELSE 0)]

matchOver(next, target) == next.player >= target \/ next.ai >= target

EndUpdate(result) == [op |-> "end", result |-> result, clearScore |-> FALSE]
ClearUpdate(clearScore) == [op |-> "clear", result |-> "none", clearScore |-> clearScore]

\* The queued updates applied in order: setRoundWinner(result) and the
\* updater of setScore with the setStatus it makes, or the setScore({0, 0})
\* and setRoundWinner(null) of a key handler queued behind them.
RECURSIVE renderQueue(_, _, _)
renderQueue(state, queue, target) ==
    IF queue = <<>> THEN state
    ELSE LET u == Head(queue)
             next == tally(state.score, u.result)
         IN renderQueue(
                IF u.op = "end"
                THEN [score |-> next, roundWinner |-> u.result,
                      status |-> IF matchOver(next, target) THEN "match_over" ELSE "round_over"]
                ELSE [score |-> IF u.clearScore THEN NoScore ELSE state.score,
                      roundWinner |-> "none", status |-> state.status],
                Tail(queue), target)

\* A key handler's setScore / setRoundWinner(null) behind the waiting
\* updates: React applies it again after them.  Two in a row act as one.
queueClear(queue, clearScore) ==
    IF queue = <<>> THEN queue
    ELSE LET n == Len(queue) IN
         IF queue[n].op = "clear"
         THEN [queue EXCEPT ![n] = ClearUpdate(queue[n].clearScore \/ clearScore)]
         ELSE Append(queue, ClearUpdate(clearScore))

\* The calls App makes on the engine.
engineCall(op) ==
    CASE op = "startRound" ->
            /\ resetRoundState
            /\ running' = TRUE
            /\ paused' = FALSE
            /\ roundEnds' = 0
            /\ last' = Call("startRound", "none", TRUE)
            /\ UNCHANGED <<width, height, aiDistanceSinceTurn, difficulty>>
      [] op = "reset" ->
            /\ resetRoundState
            /\ running' = FALSE
            /\ paused' = FALSE
            /\ roundEnds' = 0
            /\ last' = Call("reset", "none", TRUE)
            /\ UNCHANGED <<width, height, aiDistanceSinceTurn, difficulty>>
      [] op = "pause" ->
            /\ paused' = IF running THEN TRUE ELSE paused
            /\ pauseSnap' = IF running /\ ~paused THEN <<SimState>> ELSE pauseSnap
            /\ UNCHANGED <<last, width, height, player, ai, running, speed, speedTimer,
                           aiDecisionTimer, aiDistanceSinceTurn, difficulty, roundEnds,
                           turnEvents, moved>>
      [] op = "resume" ->
            /\ paused' = IF running THEN FALSE ELSE paused
            /\ pauseSnap' = IF running THEN <<>> ELSE pauseSnap
            /\ UNCHANGED <<last, width, height, player, ai, running, speed, speedTimer,
                           aiDecisionTimer, aiDistanceSinceTurn, difficulty, roundEnds,
                           turnEvents, moved>>

\* The render after a key handler and the effects of that render: the new
\* status is shown, handleKeyDown is registered again with it.
keyRender(status, clearsWinner, clearsScore) ==
    probe' = [probe EXCEPT
                !.status = status,
                !.handler = status,
                !.roundsToWinRef = probe.roundsToWin,
                !.score = IF clearsScore THEN NoScore ELSE @,
                !.roundWinner = IF clearsWinner THEN "none" ELSE @,
                !.base = IF probe.queue # <<>> \/ ~clearsWinner THEN @
                         ELSE [score |-> IF clearsScore THEN NoScore ELSE @.score,
                               roundWinner |-> "none"],
                !.queue = IF clearsWinner THEN queueClear(@, clearsScore) ELSE @]

InitApp ==
    /\ constructed
    /\ probe = [status |-> "idle", score |-> NoScore, roundWinner |-> "none",
                roundsToWin |-> 5, roundsToWinRef |-> 5, handler |-> "idle",
                queue |-> <<>>, base |-> [score |-> NoScore, roundWinner |-> "none"]]

\* startRound of App, with the status of its closure.
appStartRound(status) ==
    /\ engineCall("startRound")
    /\ keyRender("running", TRUE, status = "match_over")

resetMatch ==
    /\ engineCall("reset")
    /\ keyRender("idle", TRUE, TRUE)

\* handleKeyDown for Space.
KeySpace ==
    CASE probe.handler = "running" -> engineCall("pause") /\ keyRender("paused", FALSE, FALSE)
      [] probe.handler = "paused" -> engineCall("resume") /\ keyRender("running", FALSE, FALSE)
      [] probe.handler = "match_over" -> resetMatch
      [] OTHER -> appStartRound(probe.handler)

\* handleKeyDown for Escape.
KeyEscape ==
    /\ probe.handler \in Statuses
    /\ resetMatch

\* handleKeyDown for a direction key.
KeyDirection(direction) ==
    /\ probe.handler = "running"
    /\ SetPlayerDirection(direction, MaxTurns)

\* The select "Rounds to win", enabled while the status shown is 'idle'.
SetRoundsToWin(n) ==
    /\ probe.status = "idle"
    /\ n # probe.roundsToWin
    /\ probe' = [probe EXCEPT !.roundsToWin = n, !.roundsToWinRef = n,
                              !.handler = probe.status]
    /\ UNCHANGED <<width, height, player, ai, running, paused, speed, speedTimer,
                   aiDecisionTimer, aiDistanceSinceTurn, difficulty, roundEnds,
                   turnEvents, moved, pauseSnap, last>>

pendingEnds == Len(SelectSeq(probe.queue, LAMBDA u : u.op = "end"))

\* A frame of the engine in which the round ends with `result`: endRound
\* clears `running` and calls handleRoundEnd, whose updates wait.
FrameEndsRound(result) ==
    /\ running /\ ~paused
    /\ pendingEnds < MaxPending
    /\ running' = endRound(running)
    /\ roundEnds' = roundEnds + 1
    /\ probe' = [probe EXCEPT !.queue = Append(@, EndUpdate(result))]
    /\ UNCHANGED <<width, height, player, ai, paused, speed, speedTimer,
                   aiDecisionTimer, aiDistanceSinceTurn, difficulty,
                   turnEvents, moved, pauseSnap, last>>

\* React renders the waiting updates of handleRoundEnd.
RenderRoundEnd ==
    /\ probe.queue # <<>>
    /\ \E done \in {renderQueue([score |-> probe.base.score,
                                roundWinner |-> probe.base.roundWinner,
                                status |-> probe.status],
                               probe.queue, probe.roundsToWinRef)} :
          probe' = [probe EXCEPT !.status = done.status, !.score = done.score,
                                 !.roundWinner = done.roundWinner, !.queue = <<>>,
                                 !.base = [score |-> done.score,
                                           roundWinner |-> done.roundWinner]]
    /\ UNCHANGED <<width, height, player, ai, running, paused, speed, speedTimer,
                   aiDecisionTimer, aiDistanceSinceTurn, difficulty, roundEnds,
                   turnEvents, moved, pauseSnap, last>>

\* The effects of that render: roundsToWinRef is set, handleKeyDown is
\* registered again with the status rendered.
RegisterHandler ==
    /\ probe.handler # probe.status
    /\ probe' = [probe EXCEPT !.handler = probe.status,
                              !.roundsToWinRef = probe.roundsToWin]
    /\ UNCHANGED <<width, height, player, ai, running, paused, speed, speedTimer,
                   aiDecisionTimer, aiDistanceSinceTurn, difficulty, roundEnds,
                   turnEvents, moved, pauseSnap, last>>

NextApp ==
    \/ KeySpace
    \/ KeyEscape
    \/ \E direction \in Directions : KeyDirection(direction)
    \/ \E n \in RoundChoices : SetRoundsToWin(n)
    \/ \E result \in RoundResults : FrameEndsRound(result)
    \/ RenderRoundEnd
    \/ RegisterHandler

\* Key presses, round ends in the engine's frame callback, React's render of
\* them and the registration of the key handler, in every order.
SpecApp == InitApp /\ [][NextApp]_vars

\* ------------------------------------------------------------ MusicController

\* The controller's state lives in `probe`: mode, unlocked, muted, and the two
\* audio elements with their attributes paused, muted and currentTime (in
\* steps of playback, up to TrackSteps, where the looping track starts over).
MusicModes == {"menu", "play"}
TrackSteps == 2

NewAudio == [paused |-> TRUE, muted |-> FALSE, currentTime |-> 0]

\* audio.play(): playback starts, or the browser refuses and the promise is
\* rejected (the rejection is swallowed by catch).
playOutcomes(audio) ==
    {[audio EXCEPT !.paused = FALSE]} \cup (IF audio.paused THEN {audio} ELSE {})

\* other.pause(); other.currentTime = 0
stopped(audio) == [audio EXCEPT !.paused = TRUE, !.currentTime = 0]

\* startMuted(mode): the controller states it may leave.
startMuted(m, mode) ==
    IF mode = "menu"
    THEN {[m EXCEPT !.playAudio = stopped(@), !.menuAudio = a] :
              a \in playOutcomes([m.menuAudio EXCEPT !.muted = TRUE])}
    ELSE {[m EXCEPT !.menuAudio = stopped(@), !.playAudio = a] :
              a \in playOutcomes([m.playAudio EXCEPT !.muted = TRUE])}

startMenu(m) ==
    {[m EXCEPT !.playAudio = stopped(@), !.menuAudio = a] : a \in playOutcomes(m.menuAudio)}

startPlay(m) ==
    {[m EXCEPT !.menuAudio = stopped(@), !.playAudio = a] : a \in playOutcomes(m.playAudio)}

setMode(m, mode) ==
    LET set == [m EXCEPT !.mode = mode] IN
    IF ~set.unlocked THEN startMuted(set, mode)
    ELSE IF mode = "menu" THEN startMenu(set) ELSE startPlay(set)

unlock(m) ==
    IF m.unlocked THEN {m}
    ELSE setMode([m EXCEPT !.unlocked = TRUE,
                           !.menuAudio.muted = m.muted,
                           !.playAudio.muted = m.muted], m.mode)

setMuted(m, muted) ==
    [m EXCEPT !.muted = muted, !.menuAudio.muted = muted, !.playAudio.muted = muted]

engineUntouched ==
    UNCHANGED <<width, height, player, ai, running, paused, speed, speedTimer,
                aiDecisionTimer, aiDistanceSinceTurn, difficulty, roundEnds,
                turnEvents, moved, pauseSnap, last>>

InitMusic ==
    /\ constructed
    /\ probe = [mode |-> "menu", unlocked |-> FALSE, muted |-> FALSE,
                menuAudio |-> NewAudio, playAudio |-> NewAudio, call |-> "new"]

MusicSetMode(mode) ==
    /\ \E m \in setMode(probe, mode) : probe' = [m EXCEPT !.call = "setMode"]
    /\ engineUntouched

MusicUnlock ==
    /\ \E m \in unlock(probe) : probe' = [m EXCEPT !.call = "unlock"]
    /\ engineUntouched

MusicSetMuted(muted) ==
    /\ probe' = [setMuted(probe, muted) EXCEPT !.call = "setMuted"]
    /\ engineUntouched

\* Playback goes on: the track that is not paused advances and loops.
advanced(audio) ==
    IF audio.paused THEN audio
    ELSE [audio EXCEPT !.currentTime = (@ + 1) % (TrackSteps + 1)]

MusicPlays ==
    /\ ~probe.menuAudio.paused \/ ~probe.playAudio.paused
    /\ probe' = [probe EXCEPT !.menuAudio = advanced(@), !.playAudio = advanced(@),
                              !.call = "none"]
    /\ engineUntouched

NextMusic ==
    \/ \E mode \in MusicModes : MusicSetMode(mode)
    \/ MusicUnlock
    \/ \E muted \in BOOLEAN : MusicSetMuted(muted)
    \/ MusicPlays

\* Every order of setMode, unlock and setMuted on a new MusicController.
SpecMusic == InitMusic /\ [][NextMusic]_vars

\* ------------------------------------------------------------ properties

\* update() went past its early return in the last call recorded.
tickRan == last.op = "update" /\ last.applied

\* The name of a direction vector, and the name of its reverse.
dirName(v) == CHOOSE d \in Directions : DIRECTION_VECTORS[d] = v

OppositeName == [up |-> "down", down |-> "up", left |-> "right", right |-> "left"]

\* The radius of the trail tests, from the constants.
trailRadius == Px(COLLISION_RADIUS + COLLISION_TOLERANCE)

\* C1: between a startRound or reset and the next one, onRoundEnd is invoked
\* at most once, whatever frames, pause, resume, turn, difficulty and resize
\* calls come in between.
C1_RoundEndAtMostOnce == roundEnds <= 1

\* C1 witness: the round has ended and a later update() returned early.
C1_Witness == roundEnds = 1 /\ ~running /\ last.op = "update" /\ ~last.applied

\* C2: in each frame, heads colliding or both checks true gives 'tie'; only
\* the player's check true gives 'ai'; only the opponent's check true gives
\* 'player'; otherwise nothing is raised and the round stays running.
C2_ResolutionRule ==
    tickRan =>
        /\ (last.headHit \/ (last.playerHit /\ last.aiHit))
               => (last.result = "tie" /\ ~running /\ roundEnds = 1)
        /\ (~last.headHit /\ last.playerHit /\ ~last.aiHit)
               => (last.result = "ai" /\ ~running /\ roundEnds = 1)
        /\ (~last.headHit /\ ~last.playerHit /\ last.aiHit)
               => (last.result = "player" /\ ~running /\ roundEnds = 1)
        /\ (~last.headHit /\ ~last.playerHit /\ ~last.aiHit)
               => (last.result = "none" /\ running /\ roundEnds = 0)

\* C2 witness: a frame in which both trail checks are true and the heads are
\* apart, which the rule resolves as a tie.
C2_Witness == tickRan /\ last.playerHit /\ last.aiHit /\ ~last.headHit /\ last.result = "tie"

\* C3: each collision boolean of a frame equals the check of the candidate
\* position against the other agent's trail as it was when the frame began.
C3_ChecksUseStartOfFrameTrails ==
    tickRan => (last.playerHit = last.playerHitBefore /\ last.aiHit = last.aiHitBefore)

C5_PausedStateFrozen == paused => pauseSnap = <<SimState>>

C7_NoReversalBetweenFrames ==
    Len(moved) = 2 => ~(moved[2].x = -moved[1].x /\ moved[2].y = -moved[1].y)

\* C8 as stated: once an agent has turned, a frame that carries it straight on
\* never makes its self-check true.
C8_NoSelfHitAfterTurn ==
    tickRan =>
        /\ Len(player.segments) >= 2 => ~last.playerSelfHit
        /\ Len(ai.segments) >= 2 => ~last.aiSelfHit

\* C8 amended: the self-check of a frame is true only when the candidate is
\* within the radius of a segment older than the two most recent ones; the
\* growing segment and the segment the latest turn ended never trigger it.
C8_SelfHitOnlyOlderSegments ==
    tickRan =>
        /\ last.playerSelfHit =>
               \E i \in 1..(Len(player.segments) - 2) :
                   segmentWithin(player.pos, player.segments[i].a, player.segments[i].b,
                                 trailRadius)
        /\ last.aiSelfHit =>
               \E i \in 1..(Len(ai.segments) - 2) :
                   segmentWithin(ai.pos, ai.segments[i].a, ai.segments[i].b, trailRadius)

\* C8 witness: after a turn the candidate is within the radius of the segment
\* that turn ended, and the self-check is false.
C8_Witness ==
    /\ tickRan /\ Len(player.segments) >= 2 /\ ~last.playerSelfHit
    /\ LET n == Len(player.segments)
       IN  segmentWithin(player.pos, player.segments[n - 1].a, player.segments[n - 1].b,
                         trailRadius)

\* C9: a frame that takes an agent from one side of a trail segment to the
\* other reports a hit, at every speed of the ramp with the clamped frame time.
C9_NoSkipOverTrail == (probe.ran /\ probe.crossed) => probe.hit

C11_EndedStateFrozen ==
    [][(roundEnds = 1 /\ roundEnds' = 1) => SimState' = SimState]_vars

\* C11 witness: after the outcome, a setPlayerDirection call for a direction
\* across the player's has been ignored.
C11_Witness ==
    /\ roundEnds = 1 /\ ~running
    /\ last.op = "setPlayerDirection" /\ ~last.applied
    /\ last.arg # dirName(player.dir) /\ last.arg # OppositeName[dirName(player.dir)]

\* C12: the speed is never below BASE_SPEED = 240 and never above
\* MAX_SPEED = 520, however long the round lasts and however the time is cut
\* into frames.
C12_SpeedWithinRamp == 240 <= speed /\ speed <= 520

\* C12 witness: the ramp is at the maximum and a frame right after a further
\* interval has left it there.
C12_Witness ==
    /\ speed = 520 /\ last.op = "update" /\ last.applied
    /\ speedTimer < last.delta

\* The opponent's turn of this frame started its last segment.
aiTurnedThisFrame ==
    /\ tickRan /\ last.decided /\ Len(ai.segments) >= 2
    /\ ai.segments[Len(ai.segments)].a # ai.pos
    /\ distanceSq(ai.segments[Len(ai.segments)].a, ai.pos)
           = moveDistance(speed, last.delta) * moveDistance(speed, last.delta)

\* C13: every change of the opponent's direction made by a frame is a
\* quarter turn from the direction it held before the decision, and starts
\* one new segment.
C13_AiTurnsAreQuarterTurns ==
    [][(frameStep /\ ai'.dir # ai.dir) =>
           /\ ai'.dir.x * ai.dir.x + ai'.dir.y * ai.dir.y = 0
           /\ ai'.dir.x * ai'.dir.x + ai'.dir.y * ai'.dir.y = 1
           /\ Len(ai'.segments) = Len(ai.segments) + 1]_vars

\* C13 witness: the opponent has just made its second turn of the round.
C13_Witness == aiTurnedThisFrame /\ turnEvents.ai = 2

\* The cell a direction leads to from the agent's cell.
landingCell(agent, dir) ==
    <<agent.pos.x \div cellSize + dir.x, agent.pos.y \div cellSize + dir.y>>

\* C14: the direction a decision returns never leads to an off-grid cell or
\* to an occupied cell of the occupancy grid built for that decision, with or
\* without the forward bias of the cooldown.
C14_ChosenCellFree ==
    [][(frameStep /\ last'.decided /\ last'.chosen # NullDir) =>
           LET cell == landingCell(ai, last'.chosen)
               w == gridWidth(width)
               h == gridHeight(height)
           IN  /\ 0 <= cell[1] /\ cell[1] < w /\ 0 <= cell[2] /\ cell[2] < h
               /\ cell \notin buildOccupiedGrid(player, ai, w, h)]_vars

\* C14 witness: a decision under cooldown that returned a direction while one
\* or two of the three candidates led off the grid or to an occupied cell.
C14_Witness ==
    /\ tickRan /\ last.decided /\ last.chosen # NullDir /\ last.cooldown
    /\ last.deadMoves \in {1, 2}

\* C15: a decision with no surviving candidate, or returning the current
\* direction, leaves the opponent's direction and segment count unchanged and
\* raises no turn event.
C15_NoChangeWithoutSurvivor ==
    [][(frameStep /\ last'.decided /\ (last'.survivors = 0 \/ last'.chosen = ai.dir)) =>
           /\ ai'.dir = ai.dir
           /\ Len(ai'.segments) = Len(ai.segments)
           /\ turnEvents' = turnEvents]_vars

\* C15 witness: a decision in which no candidate survived; the round goes on.
C15_Witness ==
    tickRan /\ last.decided /\ last.survivors = 0 /\ last.chosen = NullDir /\ running

\* The head-on round has ended and neither agent ever turned.
headOnEnded ==
    /\ roundEnds = 1 /\ ~running /\ tickRan
    /\ turnEvents.player = 0 /\ turnEvents.ai = 0
    /\ Len(player.segments) = 1 /\ Len(ai.segments) = 1

\* C16: on the 800 x 600 arena, two agents that leave the default spawn
\* points towards each other and never turn end the round with the outcome
\* 'tie', never with a single winner, for every sequence of frame times up
\* to 0.05 s, and both heads are then around the horizontal midpoint x = 400
\* (within 2 * COLLISION_RADIUS of it), on the spawn line.
C16_HeadOnIsTie ==
    headOnEnded =>
        /\ last.result = "tie"
        /\ Abs(player.pos.x - width \div 2) <= headThreshold
        /\ Abs(ai.pos.x - width \div 2) <= headThreshold
        /\ player.pos.y = height \div 2 /\ ai.pos.y = height \div 2

C16_Witness == headOnEnded /\ last.result = "tie" /\ last.headHit /\ width = Px(800)

\* Strictly more than the collision radius (6 px) away from every edge.
insideEdges(point) ==
    /\ collisionRadius < point.x /\ point.x < width - collisionRadius
    /\ collisionRadius < point.y /\ point.y < height - collisionRadius

\* C17: an agent driven into an arena edge loses in the frame in which its
\* candidate position comes within radius 6 of the edge.  After every frame
\* that leaves the round running (the arena not resized since), both
\* positions satisfy 6 < x < width - 6 and 6 < y < height - 6; and when one
\* agent's candidate is at the threshold while the other agent has no hit
\* and the heads do not meet, the outcome credits the other agent.
C17_EdgeLosesAtThreshold ==
    tickRan =>
        /\ running => insideEdges(player.pos) /\ insideEdges(ai.pos)
        /\ (~insideEdges(player.pos) /\ ~last.aiHit /\ ~last.headHit) => last.result = "ai"
        /\ (~insideEdges(ai.pos) /\ ~last.playerHit /\ ~last.headHit) => last.result = "player"

C17_Witness ==
    /\ tickRan /\ ~running /\ last.result = "ai"
    /\ player.pos.y = collisionRadius
    /\ insideEdges(ai.pos) /\ ~last.aiHit /\ ~last.headHit
    /\ ~pointHitsSegments(player.pos, ai.segments, collisionRadius)
    /\ ~selfHits(player.pos, player)

\* The trail of an agent is connected, in the order of its segments, up to
\* the agent's position.
trailConnected(agent) ==
    /\ Len(agent.segments) >= 1
    /\ \A i \in 1..(Len(agent.segments) - 1) :
           agent.segments[i].b = agent.segments[i + 1].a
    /\ agent.segments[Len(agent.segments)].b = agent.pos

\* Within a round a step changes nothing of a trail but the end point of its
\* last segment, and may start new segments after it.
trailKept(before, after) ==
    /\ Len(after.segments) >= Len(before.segments)
    /\ \A i \in 1..(Len(before.segments) - 1) : after.segments[i] = before.segments[i]
    /\ after.segments[Len(before.segments)].a = before.segments[Len(before.segments)].a
    /\ Len(after.segments) > Len(before.segments) =>
           after.segments[Len(before.segments)] = before.segments[Len(before.segments)]

\* C18: in every reachable state each agent's trail is connected and
\* chronological (segment i ends where segment i+1 starts, the last segment
\* ends at the agent's position), and between two startRound or reset calls
\* only the end point of the last segment is ever modified: earlier segments
\* never change once a new one is started.
C18_TrailConnectedAndKept ==
    /\ [](trailConnected(player) /\ trailConnected(ai))
    /\ [][last'.op \notin {"startRound", "reset"} =>
              trailKept(player, player') /\ trailKept(ai, ai')]_vars

C18_Witness ==
    /\ tickRan
    /\ Len(player.segments) = 3 /\ Len(ai.segments) >= 2
    /\ \A i \in 1..3 : player.segments[i].a # player.segments[i].b
    /\ ai.segments[Len(ai.segments)].a # ai.pos

\* The straight line from a to b passes through the inside of cell (cx, cy):
\* no edge direction of the cell and no normal of the line separates them.
crossesCell(a, b, cx, cy) ==
    LET x0 == cx * cellSize
        x1 == x0 + cellSize
        y0 == cy * cellSize
        y1 == y0 + cellSize
        side(px, py) == (b.x - a.x) * (py - a.y) - (b.y - a.y) * (px - a.x)
        sides == {side(x0, y0), side(x1, y0), side(x0, y1), side(x1, y1)}
    IN  IF a = b
        THEN x0 < a.x /\ a.x < x1 /\ y0 < a.y /\ a.y < y1
        ELSE /\ Max(a.x, b.x) > x0 /\ Min(a.x, b.x) < x1
             /\ Max(a.y, b.y) > y0 /\ Min(a.y, b.y) < y1
             /\ \E c \in sides : c < 0
             /\ \E c \in sides : c > 0

\* The on-grid cells the line from a to b passes through.
crossedCells(a, b) ==
    {c \in (0..(gridWidth(width) - 1)) \X (0..(gridHeight(height) - 1)) :
        crossesCell(a, b, c[1], c[2])}

cellOf(point) == <<point.x \div cellSize, point.y \div cellSize>>

C20_MirrorSourcesDiffZero == probe.ran => probe.diff = 0

\* The agents as a new round finds them: the player at (80, height / 2)
\* heading right, the AI at (width - 80, height / 2) heading left, each with
\* one segment of length zero; speed 240 and both timers 0.
freshRound ==
    /\ player.pos = Vec(Px(80), height \div 2) /\ player.dir = Vec(1, 0)
    /\ ai.pos = Vec(width - Px(80), height \div 2) /\ ai.dir = Vec(-1, 0)
    /\ player.segments = <<[a |-> player.pos, b |-> player.pos]>>
    /\ ai.segments = <<[a |-> ai.pos, b |-> ai.pos]>>
    /\ speed = 240 /\ speedTimer = 0 /\ aiDecisionTimer = 0

\* C21: from any state, startRound leaves the engine running and not paused
\* with the agents, the speed and the timers as a new round finds them; from
\* any state, reset leaves the same fresh state, not running and not paused.
C21_StartAndResetGiveFreshRound ==
    [][/\ StartRound => (freshRound /\ running /\ ~paused)'
       /\ Reset => (freshRound /\ ~running /\ ~paused)']_vars

\* C21 witness: startRound was called after frames of an earlier round had
\* moved the AI (aiDistanceSinceTurn is not reset), and the round is fresh.
C21_Witness ==
    /\ last.op = "startRound" /\ freshRound /\ running /\ ~paused
    /\ aiDistanceSinceTurn > 0

\* C22: the number of AI decisions made during a given amount of running
\* time depends only on decisionInterval, not on how that time is divided
\* into frames: two running rounds of one difficulty that have had the same
\* running time have taken the same number of decisions.
C22_DecisionCountIndependentOfFrames ==
    (running /\ probe.time = probe.shadowTime) => probe.decisions = probe.shadowDecisions

\* C23: between decisions the AI keeps its direction.  The AI's direction
\* and the number of its segments change only in a frame whose decision
\* timer has run out, and a decision comes no sooner after the one before it
\* than the decisionInterval armed by that one, in running time.
C23_AiKeepsDirectionBetweenDecisions ==
    [][/\ (ai'.dir # ai.dir \/ Len(ai'.segments) # Len(ai.segments)) =>
              /\ frameStep /\ last'.decided
              /\ aiDecisionTimer - last'.delta <= 0
       /\ (frameStep /\ last'.decided /\ probe.decisions >= 1) =>
              /\ probe.since + last'.delta >= probe.armed
              /\ probe.armed \in {DIFFICULTY_CONFIG[level].decisionInterval :
                                     level \in Difficulties}]_vars

\* C23 witness: the second turn of the AI, taken by the third decision or a
\* later one, after frames in which it kept its direction.
C23_Witness ==
    /\ tickRan /\ last.decided /\ probe.since = 0
    /\ probe.decisions >= 3 /\ turnEvents.ai = 2 /\ Len(ai.segments) = 3
    /\ ai.segments[3].a # ai.segments[3].b

\* C24: within a frame the order is motion, collision, outcome, then the AI
\* decision, so the direction chosen by the decision of a frame does not
\* affect that frame's candidate position: the AI's candidate is the one
\* computed from the direction it had when the frame began.
C24_DecisionAfterMotion ==
    [][(frameStep /\ last'.decided) =>
           ai'.pos = candidatePos(ai, moveDistance(speed', last'.delta))]_vars

\* A step raises onTurn for the agent exactly when the agent's direction
\* changes, and then once.
turnEventPerChange(before, after, eventsBefore, eventsAfter) ==
    /\ eventsAfter \in {eventsBefore, eventsBefore + 1}
    /\ (after.dir # before.dir) <=> (eventsAfter = eventsBefore + 1)

\* C25: onTurn(who) is raised exactly once for every actual direction change
\* of an agent and never otherwise, so in every reachable state each agent's
\* segment count is 1 plus the number of turn events raised for that agent
\* since the round started.
C25_TurnEventPerDirectionChange ==
    /\ [](/\ Len(player.segments) = 1 + turnEvents.player
          /\ Len(ai.segments) = 1 + turnEvents.ai)
    /\ [][last'.op \notin {"startRound", "reset"} =>
              /\ turnEventPerChange(player, player', turnEvents.player, turnEvents'.player)
              /\ turnEventPerChange(ai, ai', turnEvents.ai, turnEvents'.ai)]_vars

C25_Witness ==
    /\ tickRan /\ turnEvents.player = 2 /\ turnEvents.ai = 2
    /\ Len(player.segments) = 3 /\ Len(ai.segments) = 3

\* The candidate that is first, in the order forward, first turn, second turn,
\* among the surviving candidates of the highest real score (0 when none
\* survives).
firstOfHighestScore(cands) ==
    LET real(i) == scoreTimes10(cands[i].vor, cands[i].mob, cands[i].shortClear)
        highest == {i \in 1..3 : cands[i].survives
                        /\ \A j \in 1..3 : cands[j].survives => real(j) <= real(i)}
    IN  IF highest = {} THEN 0 ELSE CHOOSE i \in highest : \A j \in highest : i <= j

\* The forward-bias override applies: cooldown on and forward a surviving cell.
forwardBias(cooldown, cands) == cooldown /\ cands[1].survives

belowTurnDistance(input) ==
    input.aiDistanceSinceTurn * 10
        < Px(120) * 10 + input.speed * 3
            * (CASE input.difficulty = "hard" -> 10
                 [] input.difficulty = "normal" -> 9
                 [] input.difficulty = "easy" -> 8)

\* The cell ahead of the AI is on the grid, unoccupied and has two free cells
\* ahead of it.
forwardIsSafe(input) ==
    LET dir == input.ai.dir
        cell(n) == <<input.ai.x + n * dir.x, input.ai.y + n * dir.y>>
    IN  \A n \in 1..3 : inGrid(cell(n)[1], cell(n)[2], DecideW, DecideH)
                            /\ cell(n) \notin input.occupied

\* The direction the candidate loop leaves as bestDir (NullDir for none).
scoredWinner(input, cands) ==
    LET bestDir == bestMove(getGridMoves(input.ai.dir), cands, 1, NullDir, 0)
    IN  IF bestDir = NullDir THEN NullDir ELSE gridDirToVec(bestDir)

\* C27: below the turn distance 120 + speed * 0.25 * f, with the forward cell
\* on-grid, unoccupied and of clearance >= 2, the decision is forward whatever
\* the scores are; in every other case the scored winner is returned.
C27_ForwardBiasOverride ==
    probe.ran =>
        probe.chosen = IF belowTurnDistance(probe.input) /\ forwardIsSafe(probe.input)
                       THEN gridDirToVec(probe.input.ai.dir)
                       ELSE scoredWinner(probe.input, probe.cands)

\* The override returns forward against a scored winner that is a turn.
C27_Witness ==
    /\ probe.ran /\ belowTurnDistance(probe.input) /\ forwardIsSafe(probe.input)
    /\ probe.chosen = gridDirToVec(probe.input.ai.dir)
    /\ scoredWinner(probe.input, probe.cands) \notin {NullDir, probe.chosen}


\* The cell of the candidate of move i and the cells straight ahead of it.
aheadCell(input, i, n) ==
    LET move == getGridMoves(input.ai.dir)[i]
    IN  <<input.ai.x + (n + 1) * move.x, input.ai.y + (n + 1) * move.y>>

isFreeCell(input, c) == inGrid(c[1], c[2], DecideW, DecideH) /\ c \notin input.occupied

\* The number of consecutive free on-grid cells straight ahead of the candidate
\* cell of move i, capped at the maximum of the difficulty.
cappedFreeRun(input, i) ==
    LET cap == CASE input.difficulty = "easy" -> 6
                 [] input.difficulty = "normal" -> 8
                 [] input.difficulty = "hard" -> 10
        runs == {n \in 0..cap : \A k \in 1..n : isFreeCell(input, aheadCell(input, i, k))}
    IN  CHOOSE n \in runs : \A m \in runs : m <= n

\* C29: the clearance of a candidate is the number of consecutive free on-grid
\* cells straight ahead of its cell, capped at 6 (easy), 8 (normal) or 10
\* (hard), and no candidate of clearance < 2 is the direction returned, with
\* or without the forward-bias override.
C29_LowClearanceNeverReturned ==
    probe.ran =>
        \A i \in 1..3 :
            /\ isFreeCell(probe.input, aheadCell(probe.input, i, 0)) =>
                   probe.cands[i].shortClear = cappedFreeRun(probe.input, i)
            /\ probe.chosen = gridDirToVec(getGridMoves(probe.input.ai.dir)[i]) =>
                   cappedFreeRun(probe.input, i) >= 2

\* Under the override, forward has clearance 1 and a turn of capped clearance
\* is returned in its place.
C29_Witness ==
    /\ probe.ran /\ probe.cooldown /\ probe.input.difficulty = "hard"
    /\ isFreeCell(probe.input, aheadCell(probe.input, 1, 0))
    /\ cappedFreeRun(probe.input, 1) = 1
    /\ \E i \in 2..3 :
           /\ probe.chosen = gridDirToVec(getGridMoves(probe.input.ai.dir)[i])
           /\ probe.cands[i].shortClear = 10
           /\ isFreeCell(probe.input, aheadCell(probe.input, i, 11))


\* The cells at breadth-first distance 0, 1, 2, ... from a source cell, moving
\* through unoccupied on-grid cells: levels[n + 1] is the set at distance n.
RECURSIVE distanceLevels(_, _, _, _, _)
distanceLevels(levels, seen, occupied, w, h) ==
    LET next == pushedBy(levels[Len(levels)], occupied, w, h) \ seen
    IN  IF next = {} THEN levels
        ELSE distanceLevels(Append(levels, next), seen \cup next, occupied, w, h)

\* The owners by distance: a cell strictly nearer to one source (or reached
\* from that source only) is its own, a cell at the same distance from both is
\* neutral.
nearestOwners(aiCell, playerCell, occupied, w, h) ==
    LET a == <<aiCell.x, aiCell.y>>
        p == <<playerCell.x, playerCell.y>>
        fromAi == distanceLevels(<<{a}>>, {a}, occupied, w, h)
        fromPlayer == distanceLevels(<<{p}>>, {p}, occupied, w, h)
        reached(levels) == UNION {levels[n] : n \in 1..Len(levels)}
        dist(levels, c) == CHOOSE n \in 1..Len(levels) : c \in levels[n]
        nearer(mine, theirs) ==
            {c \in reached(mine) : c \notin reached(theirs) \/ dist(mine, c) < dist(theirs, c)}
    IN  [ai |-> nearer(fromAi, fromPlayer),
         player |-> nearer(fromPlayer, fromAi),
         neutral |-> {c \in reached(fromAi) \cap reached(fromPlayer) :
                         dist(fromAi, c) = dist(fromPlayer, c)}]

\* C28: in the two-source flood fill a cell strictly nearer (breadth-first) to
\* the AI's cell than to the player's is AI-owned, and symmetrically for the
\* player; only cells at the same distance from both are neutral; the result
\* is the number of AI-owned cells minus the number of player-owned cells.
C28_OwnersByDistance ==
    probe.ran =>
        /\ voronoiOwners(probe.input.ai, probe.input.player, {}, probe.input.w, probe.input.h)
             = nearestOwners(probe.input.ai, probe.input.player, {},
                             probe.input.w, probe.input.h)
        /\ probe.diff =
             Cardinality(nearestOwners(probe.input.ai, probe.input.player, {},
                                       probe.input.w, probe.input.h).ai)
             - Cardinality(nearestOwners(probe.input.ai, probe.input.player, {},
                                         probe.input.w, probe.input.h).player)


\* C30: after a running time T since startRound, whatever frames it was made
\* of, the speed is min(520, 240 + 20 * floor(T / 5)); frames before the round
\* starts and frames in pause add nothing to T.  (probe.time is T without the
\* few q by which the doubles of the frame times exceed them.)
C30_SpeedFollowsRunningTime ==
    speed = Min(520, 240 + 20 * (probe.time \div (5 * TicksPerSecond)))


\* C31: the cell size of the AI grid is 2 * (trail half-width + collision
\* radius + collision tolerance), 18 px for the trail of 6 px, and the grid of
\* an arena has floor(width / 18) by floor(height / 18) cells, at least 4 a
\* side.
C31_CellSizeFromHalfWidth ==
    /\ cellSize = Px(2 * (TRAIL_WIDTH \div 2 + COLLISION_RADIUS + COLLISION_TOLERANCE))
    /\ cellSize = Px(18)
    /\ gridWidth(width) = Max(4, width \div Px(18))
    /\ gridHeight(height) = Max(4, height \div Px(18))


\* C32: a round given the same arena, difficulty, frames and player inputs as
\* an earlier round passes through the same agent states and ends with the
\* same outcome, whatever the earlier round left behind.
C32_RematchRepeatsRound ==
    (probe.round = 2 /\ probe.at >= 1 /\ last.op = "update") =>
        RoundView = probe.seen[probe.at]


\* C33: paused implies running in every reachable state, whatever the order
\* of startRound, reset, pause, resume, frames and round endings; and with no
\* round running a call that is neither startRound, reset, update,
\* setPlayerDirection, setDifficulty nor resize (that is, pause or resume)
\* changes nothing.
C33_PausedImpliesRunning ==
    /\ paused => running
    /\ [][/\ paused' => running'
          /\ (~running /\ last' = last /\ difficulty' = difficulty
                  /\ width' = width /\ height' = height) => UNCHANGED vars]_vars

\* A round has ended in a frame and the engine is neither running nor paused.
C33_Witness == ~running /\ ~paused /\ roundEnds >= 1 /\ last.op = "update"

\* C34: a round won by the player or by the opponent adds 1 to that side's
\* score and a tie adds nothing; once a round end is rendered the status is
\* 'match_over' exactly when a score has reached roundsToWin and
\* 'round_over' otherwise; and no score exceeds roundsToWin.
C34_MatchTally ==
    [][/\ \A result \in RoundResults :
              (probe.queue = <<EndUpdate(result)>> /\ probe'.queue = <<>>) =>
                  /\ probe'.score.player
                        = probe.score.player + (IF result = "player" THEN 1 ELSE 0)
                  /\ probe'.score.ai = probe.score.ai + (IF result = "ai" THEN 1 ELSE 0)
                  /\ probe'.status \in {"round_over", "match_over"}
       /\ (probe'.queue = <<>> /\ probe'.status \in {"round_over", "match_over"}) =>
              (probe'.status = "match_over"
                  <=> (probe'.score.player >= probe'.roundsToWin
                          \/ probe'.score.ai >= probe'.roundsToWin))
       /\ probe'.score.player <= probe'.roundsToWin
       /\ probe'.score.ai <= probe'.roundsToWin]_vars

\* The status once the waiting updates are rendered.
settledStatus ==
    renderQueue([score |-> probe.base.score, roundWinner |-> probe.base.roundWinner,
                 status |-> probe.status], probe.queue, probe.roundsToWinRef).status

\* C35: the status and the engine agree under every interleaving of key
\* presses, frame callbacks and registrations of the key handler: status
\* 'running' means the engine is running and not paused, status 'paused'
\* means it is running and paused.
C35_StatusMatchesEngine ==
    /\ settledStatus = "running" => running /\ ~paused
    /\ settledStatus = "paused" => running /\ paused

\* C36: at most one track plays, and it is the track of the current mode;
\* until unlock() has been called no track plays unmuted; after unlock() the
\* muted attribute of both tracks is the value of the last setMuted.
C36_OneTrackMutedUntilUnlock ==
    /\ probe.menuAudio.paused \/ probe.playAudio.paused
    /\ ~probe.menuAudio.paused => probe.mode = "menu"
    /\ ~probe.playAudio.paused => probe.mode = "play"
    /\ ~probe.unlocked =>
           /\ ~probe.menuAudio.paused => probe.menuAudio.muted
           /\ ~probe.playAudio.paused => probe.playAudio.muted
    /\ probe.unlocked =>
           /\ probe.menuAudio.muted = probe.muted
           /\ probe.playAudio.muted = probe.muted

====
